---- MODULE Spec2Model ----
(***************************************************************************)
(* TranscriptViewer (src/SampleControl/index.ts, first class, lines        *)
(* 109-1628): the transcript ingestion pipeline of the PCF control.        *)
(*                                                                         *)
(* The control runs on the single UI thread of the host page.  Every       *)
(* action below is one callback or one public method executed to           *)
(* completion: init, updateView, destroy, the MutationObserver callback,   *)
(* the 500 ms article poll, a frame-locate retry timer, and the two        *)
(* inbound event handlers.  The remaining actions are the environment:     *)
(* the foreign document gains articles and text, frames come and go, the   *)
(* clock advances.                                                         *)
(***************************************************************************)
EXTENDS Integers, Sequences, FiniteSets, TLC

(***************************************************************************)
(* Bounds of the model.                                                    *)
(***************************************************************************)
NumElems   == 2   \* distinct article elements the foreign document can hold
MaxRecords == 2   \* mutation records queued before the observer callback runs
MaxEvents  == 2   \* inbound custom events / postMessages delivered in a run
MaxClock   == 1   \* largest value of Date.now() in a run
MaxAttempts == 2  \* failed frame lookups in a row that are told apart
MaxFetch   == 1   \* requests to the AI service whose response is awaited
MaxDivs    == 4   \* div elements of the document IFrameTranscriptFinder scans
MaxPolls   == 2   \* WebAPI requests of pollForTranscripts awaited at once
NumTranscripts == 2  \* msdyn_transcript records of the conversation
NumNodes   == 2   \* elements the form's transcript panel can hold

Elems == 1..NumElems

(***************************************************************************)
(* JavaScript values.                                                      *)
(***************************************************************************)
NULL      == "null"        \* null / undefined conversation id
UNDEFINED == "undefined"   \* an absent optional field
NoSession == 0 - 1         \* _sessionlessId === null
NoReset   == 0 - 1         \* history: the operation did not reset the log
ConvIds   == {"abc-123", "xyz-999"}
AzureEndpoint == "https://hoterlmunkbjergdemo.cognitiveservices.azure.com"
Times     == 0..MaxClock
\* new Date(x) of an x that does not parse, a missing timestamp included:
\* its time value is NaN
InvalidDate == 0 - 2
\* an article without time element
NoTime    == 0 - 1

(***************************************************************************)
(* Strings that the code inspects character by character are sequences of  *)
(* one-character strings.                                                  *)
(***************************************************************************)
Upper == <<"A","B","C","D","E","F","G","H","I","J","K","L","M",
           "N","O","P","Q","R","S","T","U","V","W","X","Y","Z",
           "Æ","Ø","Å">>
Lower == <<"a","b","c","d","e","f","g","h","i","j","k","l","m",
           "n","o","p","q","r","s","t","u","v","w","x","y","z",
           "æ","ø","å">>

\* String.prototype.toLowerCase on one character
lowerChar(c) ==
    IF \E i \in DOMAIN Upper : Upper[i] = c
    THEN Lower[CHOOSE i \in DOMAIN Upper : Upper[i] = c]
    ELSE c

\* String.prototype.toLowerCase
toLowerCase(s) == [i \in 1..Len(s) |-> lowerChar(s[i])]

\* String.prototype.includes
includes(s, sub) ==
    \E k \in 0..(Len(s) - Len(sub)) :
        \A j \in 1..Len(sub) : s[k + j] = sub[j]

\* sender labels
LblMikePoulsen ==
    <<"M","i","k","e"," ","P","o","u","l","s","e","n">>
LblUnknown ==
    <<"U","n","k","n","o","w","n">>
LblAnna ==
    <<"A","n","n","a">>
LblCustomer ==
    <<"C","u","s","t","o","m","e","r">>
LblGuestCustomer ==
    <<"G","u","e","s","t"," ","C","u","s","t","o","m","e","r">>
LblUnknownCaller ==
    <<"U","n","k","n","o","w","n"," ","C","a","l","l","e","r">>
LblYou ==
    <<"Y","o","u">>
LblBotCU ==
    <<"B","o","t"," ","C","U">>
LblOedegaard ==
    <<"Ø","d","e","g","å","r","d">>
LblMixedCase ==
    <<"m","I","K","E">>

\* the raw senders the mapping is applied to, the empty string included
SenderInputs ==
    {<< >>, LblMikePoulsen, LblUnknown, LblAnna, LblCustomer,
     LblGuestCustomer, LblUnknownCaller, LblYou, LblBotCU, LblOedegaard,
     LblMixedCase}

\* mapSpeaker that compares the sender as it is written
mapSpeaker_CaseSensitive(sender) ==
    IF \/ includes(sender, <<"c","u","s","t","o","m","e","r">>)
       \/ includes(sender, <<"m","i","k","e">>)
       \/ includes(sender, <<"p","o","u","l","s","e","n">>)
       \/ includes(sender, <<"b","o","t">>)
       \/ includes(sender, <<"c","u">>)
    THEN "Customer"
    ELSE "Agent"

\* mapSpeaker that keeps the raw label when no rule matches
mapSpeaker_NoDefault(sender) ==
    LET senderLower == toLowerCase(sender) IN
    IF \/ includes(senderLower, <<"c","u","s","t","o","m","e","r">>)
       \/ includes(senderLower, <<"m","i","k","e">>)
       \/ includes(senderLower, <<"p","o","u","l","s","e","n">>)
       \/ includes(senderLower, <<"b","o","t">>)
       \/ includes(senderLower, <<"c","u">>)
    THEN "Customer"
    ELSE IF \/ includes(senderLower, <<"u","n","k","n","o","w","n">>)
            \/ includes(senderLower, <<"y","o","u">>)
            \/ includes(senderLower, <<"c","a","l","l","e","r">>)
            \/ includes(senderLower, <<"g","u","e","s","t">>)
         THEN "Agent"
         ELSE "Unknown"

(***************************************************************************)
(* Speaker mapping of processTranscriptArticle (index.ts 457-469).         *)
(***************************************************************************)
mapSpeaker(sender) ==
    \* const senderLower = sender.toLowerCase(), computed once
    CHOOSE speaker \in
        {IF \/ includes(senderLower, <<"c","u","s","t","o","m","e","r">>)
            \/ includes(senderLower, <<"m","i","k","e">>)
            \/ includes(senderLower, <<"p","o","u","l","s","e","n">>)
            \/ includes(senderLower, <<"b","o","t">>)
            \/ includes(senderLower, <<"c","u">>)
         THEN "Customer"
         ELSE IF \/ includes(senderLower, <<"u","n","k","n","o","w","n">>)
                 \/ includes(senderLower, <<"y","o","u">>)
                 \/ includes(senderLower, <<"c","a","l","l","e","r">>)
                 \/ includes(senderLower, <<"g","u","e","s","t">>)
              THEN "Agent"
              ELSE "Agent" :
         senderLower \in {toLowerCase(sender)}} : TRUE

(***************************************************************************)
(* Message text: sequences of characters, so that trim() is computed.      *)
(***************************************************************************)
TxtEmpty == << >>
TxtBlank == <<" ">>
TxtHello == <<"H","e","l","l","o">>
TextVals == {TxtEmpty, TxtBlank, TxtHello}

\* white space of String.prototype.trim and of \s
isSpace(c) == c \in {" ", "\t", "\n", "\r"}

RECURSIVE trimStart(_)
trimStart(s) ==
    IF s = << >> THEN << >>
    ELSE IF isSpace(Head(s)) THEN trimStart(Tail(s)) ELSE s

RECURSIVE trimEnd(_)
trimEnd(s) ==
    IF s = << >> THEN << >>
    ELSE IF isSpace(s[Len(s)]) THEN trimEnd(SubSeq(s, 1, Len(s) - 1)) ELSE s

\* String.prototype.trim
trim(s) == trimEnd(trimStart(s))

(***************************************************************************)
(* Where an article keeps its message text:                                *)
(*   "markdown"  a '.webchat__render-markdown div' node                    *)
(*   "content"   a node found only by '.webchat__text-content__markdown'    *)
(*               or by '[class*="message"], [class*="text"]'               *)
(*   "raw"       no message node: the text is the article's own text       *)
(***************************************************************************)
NodeKinds == {"markdown", "content", "raw"}

(***************************************************************************)
(* The speaker markup of an article (index.ts 402-434): the text of the    *)
(* first element each selector finds, the article's own aria-label, and    *)
(* its data-sender / data-from attributes; each may be absent.             *)
(*   sel    '.webchat--css-wwipp-111jw2m'                                  *)
(*   cls    '[class*="sender"]'                                            *)
(*   frm    '[class*="from"]'                                              *)
(*   aria   a descendant matching '[aria-label*="from"],                   *)
(*          [aria-label*="said"]'                                          *)
(***************************************************************************)
Absent  == [present |-> FALSE, text |-> << >>]
Some(t) == [present |-> TRUE, text |-> t]

AriaBotCU ==
    <<"B","o","t"," ","C","U"," ","s","a","i","d",":"," ","H","v","a",
      "d"," ","k","a","n"," ","j","e","g"," ","g","ø","r","e"," ","f",
      "o","r"," ","d","i","g","?">>
AriaPlain ==
    <<"H","e","l","l","o">>

Markups ==
    [sel : {Absent, Some(<< >>), Some(LblCustomer)},
     cls : {Absent, Some(LblMikePoulsen)},
     frm : {Absent, Some(LblOedegaard)},
     aria : {Absent, Some(LblYou)},
     label : {Absent, Some(AriaBotCU), Some(AriaPlain)},
     dataSender : {Absent, Some(LblUnknownCaller)},
     dataFrom : {Absent, Some(LblGuestCustomer)}]

NoMarkup ==
    [sel |-> Absent, cls |-> Absent, frm |-> Absent, aria |-> Absent,
     label |-> Absent, dataSender |-> Absent, dataFrom |-> Absent]

\* the markup the webchat gives article e unless stated otherwise
markupOf(e) ==
    CASE e % 3 = 1 -> [NoMarkup EXCEPT !.sel = Some(LblMikePoulsen)]
      [] e % 3 = 2 -> NoMarkup
      [] OTHER     -> [NoMarkup EXCEPT !.sel = Some(LblAnna)]

\* '.' of a regular expression matches no line terminator
isLineTerminator(c) == c \in {"\n", "\r"}

\* /^(.+?)\s+said:/i matches with a first group of k characters
saidAfter(s, k) ==
    /\ \A i \in 1..k : ~isLineTerminator(s[i])
    /\ \E j \in 1..(Len(s) - k - 5) :
          /\ \A i \in (k + 1)..(k + j) : isSpace(s[i])
          /\ toLowerCase(SubSeq(s, k + j + 1, k + j + 5))
                 = <<"s","a","i","d",":">>

\* ariaLabel.match(/^(.+?)\s+said:/i), then match[1].trim(); the empty
\* string when the label does not match
matchSaid(s) ==
    LET ks == {k \in 1..Len(s) : saidAfter(s, k)} IN
    IF ks = {} THEN << >>
    ELSE trim(SubSeq(s, 1, CHOOSE k \in ks : \A k2 \in ks : k <= k2))

\* getAttribute(name) || ...
attr(a) == a.present /\ a.text # << >>

\* sender extraction looking at data-* before the aria-label
extractSender_DataFirst(m) ==
    LET senderElement ==
            IF m.sel.present THEN m.sel
            ELSE IF m.cls.present THEN m.cls
            ELSE IF m.frm.present THEN m.frm
            ELSE m.aria
        s1 == IF senderElement.present THEN trim(senderElement.text)
              ELSE << >>
        s2 == IF s1 # << >> THEN s1
              ELSE IF attr(m.dataSender) THEN m.dataSender.text
              ELSE IF attr(m.dataFrom) THEN m.dataFrom.text
              ELSE << >>
    IN  IF s2 # << >> THEN s2
        ELSE IF attr(m.label) /\ matchSaid(m.label.text) # << >>
             THEN matchSaid(m.label.text)
             ELSE LblUnknown

\* sender extraction of processTranscriptArticle (index.ts 402-434)
extractSender(m) ==
    LET senderElement ==
            IF m.sel.present THEN m.sel
            ELSE IF m.cls.present THEN m.cls
            ELSE IF m.frm.present THEN m.frm
            ELSE m.aria
        s1 == IF senderElement.present THEN trim(senderElement.text)
              ELSE << >>
        s2 == IF s1 # << >> THEN s1
              ELSE IF attr(m.label) THEN matchSaid(m.label.text)
              ELSE << >>
    IN  IF s2 # << >> THEN s2
        ELSE IF attr(m.dataSender) THEN m.dataSender.text
        ELSE IF attr(m.dataFrom) THEN m.dataFrom.text
        ELSE LblUnknown

(***************************************************************************)
(* What one look at the nested frames finds.  The frames belong to the     *)
(* host page and may have changed in any way since the previous look, so   *)
(* every look draws its outcome afresh:                                    *)
(*   "noOuter"      getConversationIFrame finds no #SidePanelIFrame        *)
(*   "outerDenied"  reading the outer frame's document raises a            *)
(*                  SecurityError (the frame is of another origin)         *)
(*   "noInner"      the outer document holds no Omnichannel frame          *)
(*   "innerDenied"  reading the inner frame's document raises a            *)
(*                  SecurityError                                          *)
(*   "noDoc"        the inner frame has no document                        *)
(*   "ok"           the inner document is reachable                        *)
(***************************************************************************)
FrameStates == {"noOuter", "outerDenied", "noInner", "innerDenied", "noDoc",
                "ok"}

\* the outcomes of reading the captured inner frame's document in the poll
DocStates == {"innerDenied", "noDoc", "ok"}

PayloadSpeakers == {"Agent", "Customer", "System"}
PostTypes       == {"omnichannelTranscriptUpdate", "transcriptUpdate"}

VARIABLES
    phase,          \* "constructed" | "initialized" | "destroyed", or
                    \* "failed": init() raised an exception to the host
    boundId,        \* context.parameters.conversationId.raw
    conversationId, \* _conversationId
    sessionlessId,  \* _sessionlessId ("sessionless-<n>" is the number n)
    log,            \* _transcriptUtterances
    processed,      \* _processedArticles
    isActive,       \* _isActive
    subscribed,     \* _customEventHandler / _postMessageHandler registered
    observer,       \* _transcriptObserver is connected
    interval,       \* _articleCheckInterval is running
    retries,        \* pending setTimeout(startIFrameMonitoring, 2000) timers
    attempts,       \* history: frame lookups that failed in a row, counted
                    \* up to MaxAttempts + 1
    records,        \* mutation records queued for the observer callback
    articles,       \* article elements of the inner document, document order
    text,           \* text content of each article's message
    node,           \* where each article keeps its message text
    markup,         \* the speaker markup of each article
    late,           \* articles that were inserted without text (history)
    now,            \* Date.now()
    inbound,        \* inbound events delivered so far
    azureOpenAIEndpoint,  \* _azureOpenAIEndpoint (and _azureOpenAIKey)
    aiChatMessages,       \* _aiChatMessages: [sender, text]
    conversationHistory,  \* _conversationHistory: the roles of its entries
    fetches,        \* requests to the AI service whose response is awaited;
                    \* a request issued while MaxFetch are awaited never
                    \* receives its response
    sent,           \* history: the payloads of the sendToAzureOpenAI calls
                    \* made by the step just taken
    toasts,         \* the texts of the toast notices on display
    caught,         \* history: the exceptions that the catch block of
                    \* processTranscriptArticle handled in the step just taken
    timeEl,         \* the time element of each article, NoTime when absent
    divs,           \* IFrameTranscriptFinder: the div elements of the document
    results,        \* IFrameTranscriptFinder: results.messageElements
    rendered,       \* the utterance elements of _transcriptList, in order:
                    \* each is named by the utterance it was rendered from
    polls,          \* retrieveMultipleRecords calls of pollForTranscripts
                    \* whose result is awaited
    superseded,     \* history: the awaited requests to the AI service that
                    \* were issued before the AI chat was last cleared
    publisher,      \* OmnichannelTranscriptPublisher: the state of the script
    page,           \* OmnichannelTranscriptPublisher: the form's document
    last            \* history: the host call or inbound event handled last,
                    \* or the timer callback that raised an exception,
                    \* [op, cid, shaped, dropped, threw]: its name, the
                    \* conversation id it carried, whether an inbound payload
                    \* had the documented shape, how many utterances it
                    \* discarded, and whether an exception left it uncaught

vars == <<phase, boundId, conversationId, sessionlessId, log, processed,
          isActive, subscribed, observer, interval, retries, attempts,
          records, articles, text, node, markup, late, now, inbound,
          azureOpenAIEndpoint, aiChatMessages, conversationHistory, fetches,
          sent, toasts, caught, timeEl, divs, results, rendered, polls,
          superseded, publisher, page, last>>

envVars == <<articles, text, node, markup, late, now, timeEl, divs, results,
             publisher, page>>

\* the raw sender of article e
senderOf(e) == extractSender(markup[e])

\* the part of the control that the watcher and the log operations update,
\* as a callback finds it: it has issued no request yet
ctl == [processed |-> processed, log |-> log, isActive |-> isActive,
        observer |-> observer, interval |-> interval,
        retries |-> retries, attempts |-> attempts, records |-> records,
        aiChatMessages |-> aiChatMessages,
        conversationHistory |-> conversationHistory,
        fetches |-> fetches, sent |-> << >>, caught |-> 0,
        raised |-> FALSE, rendered |-> rendered, polls |-> polls,
        superseded |-> superseded]

\* the callback returns: its result k becomes the state of the control
SetCtl(c) ==
    \E k \in {c} :
        /\ processed' = k.processed
        /\ log'       = k.log
        /\ isActive'  = k.isActive
        /\ observer'  = k.observer
        /\ interval'  = k.interval
        /\ retries'   = k.retries
        /\ attempts'  = k.attempts
        /\ records'   = k.records
        /\ aiChatMessages' = k.aiChatMessages
        /\ conversationHistory' = k.conversationHistory
        /\ fetches'   = k.fetches
        /\ sent'      = k.sent
        /\ caught'    = k.caught
        /\ rendered'  = k.rendered
        /\ polls'     = k.polls
        /\ superseded' = k.superseded

\* the environment acts: the control issues no request
NoCall ==
    /\ sent' = << >>
    /\ caught' = 0
    /\ UNCHANGED <<azureOpenAIEndpoint, aiChatMessages, conversationHistory,
                   fetches, toasts, rendered, polls, superseded>>

\* u.timestamp.toISOString() (index.ts 1481) raises a RangeError for a date
\* whose time value is NaN
toISOStringThrows(utterances) ==
    \E i \in 1..Len(utterances) : utterances[i].timestamp = InvalidDate

\* getTranscriptJSON (index.ts 1475-1491); Date.toISOString keeps the instant
getTranscriptJSON(utterances, chat) ==
    [Messages |->
        [i \in 1..Len(utterances) |->
            [Caller |-> utterances[i].speaker,
             Message |-> utterances[i].text,
             Timestamp |-> utterances[i].timestamp]],
     AIAssistant |->
        [i \in 1..Len(chat) |->
            [Sender |-> IF chat[i].sender = "user" THEN "User" ELSE "Agent",
             Message |-> chat[i].text]]]

\* the analysis request issued once per callback instead of once per utterance
requestAnalysis_OncePerCallback(c) ==
    IF azureOpenAIEndpoint # NULL /\ Len(c.log) > 0 /\ c.sent = << >>
    THEN LET c1 == [c EXCEPT !.aiChatMessages = << >>,
                             !.conversationHistory = << >>,
                             !.superseded = c.fetches]
         IN  IF toISOStringThrows(c1.log)
             THEN [c1 EXCEPT !.raised = TRUE]
             ELSE [c1 EXCEPT
                     !.conversationHistory = <<"user">>,
                     !.sent = Append(c.sent,
                                getTranscriptJSON(c1.log, c1.aiChatMessages)),
                     !.fetches = IF c.fetches < MaxFetch THEN c.fetches + 1
                                 ELSE c.fetches]
    ELSE c

(***************************************************************************)
(* The AI analysis of addUtterance (index.ts 948-966) with the synchronous *)
(* part of sendToAzureOpenAI (1496-1532): the chat and the history are     *)
(* cleared, the payload is built, the prompt is pushed to the history and  *)
(* the request is issued.  When getTranscriptJSON raises its RangeError    *)
(* the chat and the history are already cleared and nothing is sent; the   *)
(* field raised tells the caller that the exception is on its way up.      *)
(***************************************************************************)
requestAnalysis(c) ==
    IF azureOpenAIEndpoint # NULL /\ Len(c.log) > 0
    THEN LET c1 == [c EXCEPT !.aiChatMessages = << >>,
                             !.conversationHistory = << >>,
                             !.superseded = c.fetches]
         IN  IF toISOStringThrows(c1.log)
             THEN [c1 EXCEPT !.raised = TRUE]
             ELSE [c1 EXCEPT
                     !.conversationHistory = <<"user">>,
                     !.sent = Append(c.sent,
                                getTranscriptJSON(c1.log, c1.aiChatMessages)),
                     !.fetches = IF c.fetches < MaxFetch THEN c.fetches + 1
                                 ELSE c.fetches]
    ELSE c

\* utterance.speaker.toLowerCase() of renderUtterance (index.ts 974) raises a
\* TypeError for an utterance without speaker
renderThrows(utterance) == utterance.speaker = UNDEFINED

\* renderUtterance (index.ts 972-1001): the element is appended to the list
renderUtterance(c, utterance) ==
    [c EXCEPT !.rendered = Append(c.rendered, utterance)]

(***************************************************************************)
(* The body of addUtterance from the push on (index.ts 933-966): the       *)
(* utterance is pushed to the log, rendered, the control becomes active    *)
(* and the analysis is requested.  An exception of renderUtterance leaves  *)
(* addUtterance after the push.                                            *)
(***************************************************************************)
push(utterance, c) ==
    CHOOSE after \in
        {IF renderThrows(utterance)
         THEN [k EXCEPT !.raised = TRUE]
         ELSE requestAnalysis([renderUtterance(k, utterance)
                                  EXCEPT !.isActive = TRUE]) :
         k \in {[c EXCEPT !.log = Append(c.log, utterance)]}} :
        TRUE

\* addUtterance keeping the log sorted by timestamp
addUtterance_Sorted(c, speaker, txt, timestamp, sentiment, src) ==
    LET utterance == [id |-> now, speaker |-> speaker, text |-> txt,
                      timestamp |-> timestamp, sentiment |-> sentiment,
                      src |-> src]
        older(u) == u.timestamp <= timestamp
        newer(u) == u.timestamp > timestamp
    IN  requestAnalysis(
            [c EXCEPT !.log = SelectSeq(c.log, older) \o <<utterance>>
                              \o SelectSeq(c.log, newer),
                      !.rendered = Append(c.rendered, utterance),
                      !.isActive = TRUE])

(***************************************************************************)
(* addUtterance (index.ts 913-967).  A generated id is                     *)
(* `utterance-${Date.now()}-${Math.random()}`; the model keeps the         *)
(* Date.now() part.  The field src is history: the article element an      *)
(* utterance was extracted from, 0 when it came from an inbound event.     *)
(***************************************************************************)
addUtterance(c, speaker, txt, timestamp, sentiment, src) ==
    push([id |-> now, speaker |-> speaker, text |-> txt,
          timestamp |-> timestamp, sentiment |-> sentiment, src |-> src], c)

\* processTranscriptArticle without its try/catch: the exception goes on up
catch_Rethrow(c) == c

\* the catch block of processTranscriptArticle (index.ts 477-479)
catch(c) ==
    IF c.raised THEN [c EXCEPT !.raised = FALSE, !.caught = c.caught + 1]
    ELSE c

\* message text extraction of processTranscriptArticle (index.ts 439-448)
extractText(article) ==
    IF node[article] = "raw" THEN << >> ELSE trim(text[article])

\* processTranscriptArticle without the _processedArticles.has() test
processTranscriptArticle_NoGuard(article, c) ==
    LET txt == extractText(article) IN
    IF txt # << >>
    THEN catch(addUtterance(
                   [c EXCEPT !.processed = c.processed \cup {article}],
                   mapSpeaker(senderOf(article)), txt, now,
                   UNDEFINED, article))
    ELSE c

\* processTranscriptArticle skipping an article whose speaker and text the
\* log already holds
processTranscriptArticle_ByContent(article, c) ==
    LET txt == extractText(article)
        speaker == mapSpeaker(senderOf(article))
    IN  IF \/ article \in c.processed
           \/ \E i \in 1..Len(c.log) :
                 c.log[i].speaker = speaker /\ c.log[i].text = txt
        THEN c
        ELSE IF txt # << >>
        THEN catch(addUtterance(
                       [c EXCEPT !.processed = c.processed \cup {article}],
                       speaker, txt, now, UNDEFINED, article))
        ELSE c

\* processTranscriptArticle marking the article before it looks at the text
processTranscriptArticle_MarkEmpty(article, c) ==
    IF article \in c.processed
    THEN c
    ELSE LET txt == extractText(article)
             c1  == [c EXCEPT !.processed = c.processed \cup {article}]
         IN  IF txt # << >>
             THEN catch(addUtterance(c1, mapSpeaker(senderOf(article)), txt,
                                     now, UNDEFINED, article))
             ELSE c1

(***************************************************************************)
(* processTranscriptArticle (index.ts 392-480)                             *)
(***************************************************************************)
processTranscriptArticle(article, c) ==
    \* k is the control as the call finds it; txt and speaker are the locals
    \* text and speaker, each computed once.  An exception that had left an
    \* earlier call of the same forEach would have ended the loop: this call
    \* would not happen.
    CHOOSE after \in
        {IF k.raised \/ article \in k.processed
         THEN k
         ELSE IF txt # << >>
              THEN catch(addUtterance(
                        [k EXCEPT !.processed = k.processed \cup {article}],
                        speaker, txt, now, UNDEFINED, article))
              ELSE k :
         k \in {c},
         txt \in {extractText(article)},
         speaker \in {mapSpeaker(sender) : sender \in {senderOf(article)}}} :
        TRUE

\* existingArticles.forEach(article => this.processTranscriptArticle(article))
RECURSIVE processExisting(_, _)
processExisting(list, c) ==
    IF list = << >> THEN c
    ELSE processExisting(Tail(list), processTranscriptArticle(Head(list), c))

(***************************************************************************)
(* One mutation record in the observer callback (index.ts 325-356).        *)
(* A record is [kind, el, isElement]:                                      *)
(*   kind "added"   article el is in addedNodes, the target is its parent  *)
(*   kind "content" a node was added or changed inside article el          *)
(* isElement is the outcome of `x instanceof Element` for the article      *)
(* node ("added") or for mutation.target ("content"): it is false for a    *)
(* Text target and for a node of another realm.                            *)
(***************************************************************************)
processMutation(mutation, c) ==
    LET c1 == IF mutation.kind = "added" /\ mutation.isElement
              THEN processTranscriptArticle(mutation.el, c)
              ELSE c
    IN  IF /\ mutation.kind = "content"
           /\ mutation.isElement
           /\ mutation.el \notin c1.processed
           /\ node[mutation.el] = "markdown"
           /\ trim(text[mutation.el]) # << >>
        THEN processTranscriptArticle(mutation.el, c1)
        ELSE c1

\* mutations.forEach(...)
RECURSIVE processMutations(_, _)
processMutations(mutations, c) ==
    IF mutations = << >> THEN c
    ELSE processMutations(Tail(mutations), processMutation(Head(mutations), c))

\* searchIFrameForTranscript (index.ts 271-287)
searchIFrameForTranscript(found) ==
    IF found = "ok" THEN articles ELSE << >>

\* a poll that looks at the first article of the document only
pollArticles_FirstOnly(list, c) ==
    IF list = << >> THEN c
    ELSE IF Head(list) \notin c.processed
         THEN processTranscriptArticle(Head(list), c)
         ELSE c

\* the 500 ms interval callback (index.ts 377-385)
RECURSIVE pollArticles(_, _)
pollArticles(list, c) ==
    IF list = << >> THEN c
    ELSE pollArticles(Tail(list),
                      IF Head(list) \notin c.processed
                      THEN processTranscriptArticle(Head(list), c)
                      ELSE c)

\* getOmnichannelIFrame (index.ts 246-265): the inner frame was returned;
\* a SecurityError raised by the outer document is caught and yields null
getOmnichannelIFrame(found) ==
    found \notin {"noOuter", "outerDenied", "noInner"}

\* line 315 of startIFrameMonitoring reads the inner frame's document outside
\* any try block: a SecurityError raised there leaves the method uncaught
startThrows(found) == found = "innerDenied"

\* startIFrameMonitoring scheduling its retry on every path
startIFrameMonitoring_AlwaysRetry(found, c) ==
    CASE found = "noOuter" \/ ~getOmnichannelIFrame(found) ->
            [c EXCEPT !.retries = c.retries + 1,
                      !.attempts = IF c.attempts > MaxAttempts
                                   THEN c.attempts ELSE c.attempts + 1]
      [] found \in {"noDoc", "innerDenied"} -> [c EXCEPT !.attempts = 0]
      [] OTHER ->
            LET c1 == [c EXCEPT !.observer = TRUE, !.records = << >>,
                                !.attempts = 0, !.retries = 1]
                c2 == processExisting(searchIFrameForTranscript(found), c1)
            IN  [c2 EXCEPT !.interval = TRUE]

(***************************************************************************)
(* startIFrameMonitoring (index.ts 293-386)                                *)
(***************************************************************************)
startIFrameMonitoring(found, c) ==
    CASE found = "noOuter" \/ ~getOmnichannelIFrame(found) ->
            [c EXCEPT !.retries = c.retries + 1,
                      !.attempts = IF c.attempts > MaxAttempts
                                   THEN c.attempts ELSE c.attempts + 1]
      [] found \in {"noDoc", "innerDenied"} -> [c EXCEPT !.attempts = 0]
      [] OTHER ->
            LET c1 == [c EXCEPT !.observer = TRUE, !.records = << >>,
                                !.attempts = 0]
                c2 == processExisting(searchIFrameForTranscript(found), c1)
            IN  [c2 EXCEPT !.interval = TRUE]

\* stopIFrameMonitoring (index.ts 485-497)
stopIFrameMonitoring(c) ==
    [c EXCEPT !.observer = FALSE, !.records = << >>, !.interval = FALSE]

\* resetTranscript without _processedArticles.clear()
resetTranscript_KeepIndex(c) ==
    [c EXCEPT !.log = << >>, !.rendered = << >>, !.isActive = FALSE]

\* resetTranscript (index.ts 1403-1416)
resetTranscript(c) ==
    [c EXCEPT !.log = << >>, !.rendered = << >>, !.processed = {},
              !.isActive = FALSE]

(***************************************************************************)
(* Initial state: the control is constructed, init() has not run.  The     *)
(* host may bind a conversation id or none.                                *)
(***************************************************************************)
InitCtl ==
    /\ phase = "constructed"
    /\ boundId \in ConvIds \cup {NULL}
    /\ conversationId = NULL
    /\ sessionlessId = NoSession
    /\ log = << >>
    /\ processed = {}
    /\ isActive = FALSE
    /\ subscribed = FALSE
    /\ observer = FALSE
    /\ interval = FALSE
    /\ retries = 0
    /\ attempts = 0
    /\ records = << >>
    /\ articles = << >>
    /\ text = [e \in Elems |-> TxtEmpty]
    /\ node = [e \in Elems |-> "markdown"]
    /\ late = {}
    /\ now = 0
    /\ inbound = 0
    /\ azureOpenAIEndpoint = NULL
    /\ aiChatMessages = << >>
    /\ conversationHistory = << >>
    /\ fetches = 0
    /\ sent = << >>
    /\ toasts = {}
    /\ caught = 0
    /\ rendered = << >>
    /\ polls = 0
    /\ superseded = 0
    /\ last = [op |-> "none", cid |-> NULL, shaped |-> FALSE,
               dropped |-> NoReset, threw |-> FALSE]

\* IFrameTranscriptFinder before its search: results.messageElements = []
NotRun == [ran |-> FALSE, messageElements |-> << >>]

\* OmnichannelTranscriptPublisher before initialize (lines 56-60), and a
\* form document without transcript panel
NotLoaded == [onLoad |-> FALSE, initialized |-> FALSE, observer |-> FALSE,
              processedMessages |-> {}, retries |-> 0, records |-> << >>,
              published |-> << >>]

\* the articles carry no time element
NoTimes == timeEl = [e \in Elems |-> NoTime]

\* IFrameTranscriptFinder, a script of its own, is not running
NoFinder == divs = << >> /\ results = NotRun

\* OmnichannelTranscriptPublisher, a web resource of the form, is not loaded
NoPublisher ==
    /\ publisher = NotLoaded
    /\ page = [panel |-> FALSE, attached |-> {}, desc |-> << >>]

Init ==
    /\ InitCtl
    /\ markup = [e \in Elems |-> markupOf(e)]
    /\ NoTimes
    /\ NoFinder
    /\ NoPublisher

\* the texts of the AI chat and of the toast notices
MsgGreeting   == "Hello! I'm your AI assistant."
MsgAnalysis   == "analysis"
MsgNoResponse == "No response from AI"
MsgAuthFailed == "Error: Authentication failed - check API key"
MsgError      == "Error: Azure OpenAI API error"
ToastConnected == "AI Assistant connected"
ToastError     == "Error communicating with AI"

\* addAIMessage (index.ts 1061-1078)
addAIMessage(chat, txt, sender) ==
    Append(chat, [sender |-> sender, text |-> txt])

\* createUI (index.ts 561-707) greets in the AI chat (line 659)
createUI(c) ==
    [c EXCEPT !.aiChatMessages = addAIMessage(c.aiChatMessages, MsgGreeting,
                                              "ai")]

(***************************************************************************)
(* init (index.ts 502-556): the frames are looked up, and the existing     *)
(* articles scanned, before configureAzureFoundry sets the endpoint; an    *)
(* exception of startIFrameMonitoring ends init at line 525.               *)
(***************************************************************************)
init(found) ==
    /\ phase = "constructed"
    /\ phase' = IF startThrows(found) THEN "failed" ELSE "initialized"
    /\ conversationId' = boundId
    /\ subscribed' = TRUE
    /\ SetCtl(startIFrameMonitoring(found, createUI(ctl)))
    /\ IF startThrows(found)
       THEN UNCHANGED <<azureOpenAIEndpoint, toasts, sessionlessId>>
       ELSE /\ azureOpenAIEndpoint' = AzureEndpoint
            /\ toasts' = toasts \cup {ToastConnected}
            /\ sessionlessId' = IF boundId = NULL THEN now
                                ELSE sessionlessId
    /\ last' = [op |-> "init", cid |-> boundId, shaped |-> FALSE,
                dropped |-> NoReset, threw |-> startThrows(found)]
    /\ UNCHANGED <<boundId, inbound>>
    /\ UNCHANGED envVars

\* a retry timer set at index.ts 301 / 310 fires
retryTimer(found) ==
    /\ retries > 0
    /\ SetCtl(startIFrameMonitoring(found,
                                    [ctl EXCEPT !.retries = retries - 1]))
    /\ last' = IF startThrows(found)
               THEN [op |-> "retryTimer", cid |-> NULL, shaped |-> FALSE,
                     dropped |-> NoReset, threw |-> TRUE]
               ELSE last
    /\ UNCHANGED <<phase, boundId, conversationId, sessionlessId, subscribed,
                   inbound, azureOpenAIEndpoint, toasts>>
    /\ UNCHANGED envVars

\* the MutationObserver callback receives the queued records (index.ts 324-357)
observerCallback ==
    /\ observer
    /\ records # << >>
    /\ SetCtl(processMutations(records, [ctl EXCEPT !.records = << >>]))
    /\ UNCHANGED <<phase, boundId, conversationId, sessionlessId, subscribed,
                   inbound, last, azureOpenAIEndpoint, toasts>>
    /\ UNCHANGED envVars

\* the 500 ms interval fires (index.ts 377-385)
articleCheck(found) ==
    /\ interval
    /\ SetCtl(pollArticles(searchIFrameForTranscript(found), ctl))
    /\ UNCHANGED <<phase, boundId, conversationId, sessionlessId, subscribed,
                   inbound, last, azureOpenAIEndpoint, toasts>>
    /\ UNCHANGED envVars

(***************************************************************************)
(* handleCustomTranscriptEvent (index.ts 752-787).  detail is              *)
(* [present, conversationId, hasUtterance, speaker, timestamp]; reading    *)
(* data.utterance.speaker of a detail without utterance throws after the   *)
(* id handling has run, and so does addUtterance when the log holds a      *)
(* timestamp that toISOString rejects.                                     *)
(***************************************************************************)
\* the id handling adopting every incoming id, latched or not
latch_Adopt(incomingId) ==
    IF incomingId # NULL
    THEN [conversationId |-> incomingId, sessionlessId |-> sessionlessId]
    ELSE IF conversationId = NULL /\ sessionlessId = NoSession
         THEN [conversationId |-> conversationId, sessionlessId |-> now]
         ELSE [conversationId |-> conversationId,
               sessionlessId |-> sessionlessId]

\* the id handling of both inbound handlers (index.ts 760-771, 812-823)
latch(incomingId) ==
    IF conversationId = NULL /\ incomingId # NULL
    THEN [conversationId |-> incomingId, sessionlessId |-> sessionlessId]
    ELSE IF conversationId = NULL /\ sessionlessId = NoSession
         THEN [conversationId |-> conversationId, sessionlessId |-> now]
         ELSE [conversationId |-> conversationId,
               sessionlessId |-> sessionlessId]

handleCustomTranscriptEvent(detail) ==
    /\ subscribed
    /\ inbound < MaxEvents
    /\ inbound' = inbound + 1
    /\ last' = [op |-> "handleCustomTranscriptEvent",
                cid |-> IF detail.present THEN detail.conversationId ELSE NULL,
                shaped |-> detail.present /\ detail.hasUtterance,
                dropped |-> NoReset,
                threw |-> /\ detail.present
                          /\ \/ ~detail.hasUtterance
                             \/ addUtterance(ctl, detail.speaker, TxtHello,
                                             detail.timestamp, UNDEFINED,
                                             0).raised]
    /\ IF ~detail.present
       THEN UNCHANGED <<conversationId, sessionlessId>> /\ SetCtl(ctl)
       ELSE /\ conversationId' = latch(detail.conversationId).conversationId
            /\ sessionlessId' = latch(detail.conversationId).sessionlessId
            /\ IF detail.hasUtterance
               THEN SetCtl(addUtterance(ctl, detail.speaker, TxtHello,
                                        detail.timestamp, UNDEFINED, 0))
               ELSE SetCtl(ctl)
    /\ UNCHANGED <<phase, boundId, subscribed, azureOpenAIEndpoint, toasts>>
    /\ UNCHANGED envVars

(***************************************************************************)
(* handlePostMessage (index.ts 802-839).  data is event.data: the flat      *)
(* envelope [type, conversationId, speaker, timestamp], or null            *)
(* (present = FALSE), of which reading data.type raises a TypeError.       *)
(***************************************************************************)
handlePostMessage(data) ==
    /\ subscribed
    /\ inbound < MaxEvents
    /\ inbound' = inbound + 1
    /\ last' = [op |-> "handlePostMessage", cid |-> data.conversationId,
                shaped |-> data.present
                           /\ data.type = "omnichannelTranscriptUpdate",
                dropped |-> NoReset,
                threw |-> \/ ~data.present
                          \/ /\ data.type = "omnichannelTranscriptUpdate"
                             /\ addUtterance(ctl, data.speaker, TxtHello,
                                             data.timestamp, UNDEFINED,
                                             0).raised]
    /\ IF ~data.present \/ data.type # "omnichannelTranscriptUpdate"
       THEN UNCHANGED <<conversationId, sessionlessId>> /\ SetCtl(ctl)
       ELSE /\ conversationId' = latch(data.conversationId).conversationId
            /\ sessionlessId' = latch(data.conversationId).sessionlessId
            /\ SetCtl(addUtterance(ctl, data.speaker, TxtHello,
                                   data.timestamp, UNDEFINED, 0))
    /\ UNCHANGED <<phase, boundId, subscribed, azureOpenAIEndpoint, toasts>>
    /\ UNCHANGED envVars

CustomDetails ==
    [present : {TRUE}, conversationId : ConvIds \cup {NULL},
     hasUtterance : {TRUE}, speaker : PayloadSpeakers,
     timestamp : Times \cup {InvalidDate}]
    \cup [present : {TRUE}, conversationId : ConvIds \cup {NULL},
          hasUtterance : {FALSE}, speaker : {UNDEFINED}, timestamp : {0}]
    \cup [present : {FALSE}, conversationId : {NULL},
          hasUtterance : {FALSE}, speaker : {UNDEFINED}, timestamp : {0}]

PostMessages ==
    [present : {TRUE}, type : PostTypes, conversationId : ConvIds \cup {NULL},
     speaker : PayloadSpeakers, timestamp : Times \cup {InvalidDate}]
    \cup [present : {FALSE}, type : {UNDEFINED}, conversationId : {NULL},
          speaker : {UNDEFINED}, timestamp : {0}]

\* updateView resetting only for a new id that is not null
updateView_NonNullOnly(newConversationId) ==
    /\ phase \in {"initialized", "failed"}
    /\ boundId' = newConversationId
    /\ last' = [op |-> "updateView", cid |-> newConversationId,
                shaped |-> FALSE,
                dropped |-> IF /\ newConversationId # conversationId
                               /\ newConversationId # NULL
                            THEN Len(log) ELSE NoReset,
                threw |-> FALSE]
    /\ IF newConversationId # conversationId /\ newConversationId # NULL
       THEN /\ conversationId' = newConversationId
            /\ sessionlessId' = sessionlessId
            /\ SetCtl(resetTranscript(ctl))
       ELSE UNCHANGED <<conversationId, sessionlessId>> /\ SetCtl(ctl)
    /\ UNCHANGED <<phase, subscribed, inbound, azureOpenAIEndpoint, toasts>>
    /\ UNCHANGED envVars

(***************************************************************************)
(* updateView (index.ts 1381-1398): the host passes the bound id.          *)
(***************************************************************************)
updateView(newConversationId) ==
    /\ phase \in {"initialized", "failed"}
    /\ boundId' = newConversationId
    /\ last' = [op |-> "updateView", cid |-> newConversationId,
                shaped |-> FALSE,
                dropped |-> IF newConversationId # conversationId
                            THEN Len(log) ELSE NoReset,
                threw |-> FALSE]
    /\ IF newConversationId # conversationId
       THEN /\ conversationId' = newConversationId
            /\ sessionlessId' = IF newConversationId = NULL THEN now
                                ELSE sessionlessId
            /\ SetCtl(resetTranscript(ctl))
       ELSE UNCHANGED <<conversationId, sessionlessId>> /\ SetCtl(ctl)
    /\ UNCHANGED <<phase, subscribed, inbound, azureOpenAIEndpoint, toasts>>
    /\ UNCHANGED envVars

\* destroy leaving the two listeners registered
destroy_KeepListeners ==
    /\ phase \in {"initialized", "failed"}
    /\ phase' = "destroyed"
    /\ subscribed' = subscribed
    /\ SetCtl(stopIFrameMonitoring(ctl))
    /\ last' = [op |-> "destroy", cid |-> NULL, shaped |-> FALSE,
                dropped |-> NoReset, threw |-> FALSE]
    /\ UNCHANGED <<boundId, conversationId, sessionlessId, inbound,
                   azureOpenAIEndpoint, toasts>>
    /\ UNCHANGED envVars

(***************************************************************************)
(* destroy (index.ts 1619-1627)                                            *)
(***************************************************************************)
destroy ==
    /\ phase \in {"initialized", "failed"}
    /\ phase' = "destroyed"
    /\ subscribed' = FALSE
    /\ SetCtl(stopIFrameMonitoring(ctl))
    /\ last' = [op |-> "destroy", cid |-> NULL, shaped |-> FALSE,
                dropped |-> NoReset, threw |-> FALSE]
    /\ UNCHANGED <<boundId, conversationId, sessionlessId, inbound,
                   azureOpenAIEndpoint, toasts>>
    /\ UNCHANGED envVars

\* _conversationHistory.slice(-20) when it is longer (index.ts 1552-1554)
lastTwenty(history) ==
    IF Len(history) > 20
    THEN SubSeq(history, Len(history) - 19, Len(history))
    ELSE history

\* a failed analysis that also discards the transcript
fetchDone_ResetOnError(outcome) ==
    /\ fetches > 0
    /\ LET c == [ctl EXCEPT !.fetches = fetches - 1,
                            !.superseded = IF superseded > 0
                                           THEN superseded - 1 ELSE 0] IN
       CASE outcome = "ok" ->
               /\ SetCtl([c EXCEPT
                     !.conversationHistory =
                         lastTwenty(Append(conversationHistory, "assistant")),
                     !.aiChatMessages =
                         addAIMessage(aiChatMessages, MsgAnalysis, "ai")])
               /\ toasts' = toasts
         [] outcome = "empty" ->
               /\ SetCtl([c EXCEPT !.aiChatMessages =
                         addAIMessage(aiChatMessages, MsgNoResponse, "ai")])
               /\ toasts' = toasts
         [] OTHER ->
               /\ SetCtl(resetTranscript([c EXCEPT !.aiChatMessages =
                         addAIMessage(aiChatMessages, MsgError, "ai")]))
               /\ toasts' = toasts \cup {ToastError}
    /\ UNCHANGED <<phase, boundId, conversationId, sessionlessId, subscribed,
                   inbound, last, azureOpenAIEndpoint>>
    /\ UNCHANGED envVars

(***************************************************************************)
(* The response of a request arrives: the rest of sendToAzureOpenAI        *)
(* (index.ts 1534-1566) and the then-callback of addUtterance (958-965).   *)
(*   "ok"       a completion with choices                                  *)
(*   "empty"    a completion without choices                               *)
(*   "network"  fetch rejected                                             *)
(*   "status"   a response that is not ok                                  *)
(*   "auth"     a response that is not ok, status 401                      *)
(***************************************************************************)
fetchDone(outcome) ==
    /\ fetches > 0
    /\ LET c == [ctl EXCEPT !.fetches = fetches - 1,
                            !.superseded = IF superseded > 0
                                           THEN superseded - 1 ELSE 0] IN
       CASE outcome = "ok" ->
               /\ SetCtl([c EXCEPT
                     !.conversationHistory =
                         lastTwenty(Append(conversationHistory, "assistant")),
                     !.aiChatMessages =
                         addAIMessage(aiChatMessages, MsgAnalysis, "ai")])
               /\ toasts' = toasts
         [] outcome = "empty" ->
               /\ SetCtl([c EXCEPT !.aiChatMessages =
                         addAIMessage(aiChatMessages, MsgNoResponse, "ai")])
               /\ toasts' = toasts
         [] OTHER ->
               /\ SetCtl([c EXCEPT !.aiChatMessages =
                         addAIMessage(aiChatMessages,
                                      IF outcome = "auth" THEN MsgAuthFailed
                                      ELSE MsgError, "ai")])
               /\ toasts' = toasts \cup {ToastError}
    /\ UNCHANGED <<phase, boundId, conversationId, sessionlessId, subscribed,
                   inbound, last, azureOpenAIEndpoint>>
    /\ UNCHANGED envVars

FetchOutcomes == {"ok", "empty", "network", "status", "auth"}

\* a toast is removed after its duration (index.ts 1466-1469)
toastExpire(t) ==
    /\ t \in toasts
    /\ toasts' = toasts \ {t}
    /\ sent' = << >>
    /\ caught' = 0
    /\ UNCHANGED <<phase, boundId, conversationId, sessionlessId, log,
                   processed, isActive, subscribed, observer, interval,
                   retries, attempts, records, inbound, last,
                   azureOpenAIEndpoint, aiChatMessages, conversationHistory,
                   fetches, rendered, polls, superseded>>
    /\ UNCHANGED envVars

(***************************************************************************)
(* Environment: the inner document.  A change is queued as a mutation      *)
(* record while the observer is connected.                                 *)
(***************************************************************************)
queue(rec) ==
    IF observer THEN records' = Append(records, rec) ELSE records' = records

inDom(e) == \E i \in 1..Len(articles) : articles[i] = e

insertArticle(e, t, k, isEl) ==
    /\ ~inDom(e)
    /\ observer => Len(records) < MaxRecords
    /\ articles' = Append(articles, e)
    /\ text' = [text EXCEPT ![e] = t]
    /\ node' = [node EXCEPT ![e] = k]
    /\ late' = IF trim(t) = << >> THEN late \cup {e} ELSE late
    /\ queue([kind |-> "added", el |-> e, isElement |-> isEl])
    /\ NoCall
    /\ UNCHANGED <<phase, boundId, conversationId, sessionlessId, log,
                   processed, isActive, subscribed, observer, interval,
                   retries, attempts, markup, now, inbound, last, timeEl,
                   divs, results, publisher, page>>

\* an article rendered as an empty shell receives its text
fillArticle(e, isEl) ==
    /\ inDom(e)
    /\ trim(text[e]) = << >>
    /\ observer => Len(records) < MaxRecords
    /\ text' = [text EXCEPT ![e] = TxtHello]
    /\ queue([kind |-> "content", el |-> e, isElement |-> isEl])
    /\ NoCall
    /\ UNCHANGED <<phase, boundId, conversationId, sessionlessId, log,
                   processed, isActive, subscribed, observer, interval,
                   retries, attempts, articles, node, markup, late, now, inbound,
                   last, timeEl, divs, results, publisher, page>>

tick ==
    /\ now < MaxClock
    /\ now' = now + 1
    /\ NoCall
    /\ UNCHANGED <<phase, boundId, conversationId, sessionlessId, log,
                   processed, isActive, subscribed, observer, interval,
                   retries, attempts, records, articles, text, node, markup, late,
                   inbound, last, timeEl, divs, results, publisher, page>>

(***************************************************************************)
(* IFrameTranscriptFinder.js, searchIFrameForTranscript, "repeating        *)
(* message-like structures" (lines 181-205) as findTranscript runs it.     *)
(* A div is [classList, textContent]: its class tokens in the order the    *)
(* markup lists them, and its text.  An element is named by its position   *)
(* in document order.                                                      *)
(***************************************************************************)
\* the class tokens of the documents, in the order of their UTF-16 code units
ClassNames == <<"msg", "x", "y">>

ClassLists == {<< >>, <<"msg", "x">>, <<"x", "msg">>, <<"x">>, <<"y">>}

TxtTen    == <<"H","e","l","l","o"," ","y","o","u",".">>
TxtEleven == <<" ","H","e","l","l","o"," ","t","h","e","r","e"," ">>
DivTexts  == {TxtTen, TxtEleven}

Docs ==
    UNION {[1..n -> [classList : ClassLists, textContent : DivTexts]] :
              n \in 0..MaxDivs}

\* Array.prototype.sort() of distinct tokens: ascending code units
sort(list) ==
    LET tokens  == {list[i] : i \in 1..Len(list)}
        rank(t) == CHOOSE i \in 1..Len(ClassNames) : ClassNames[i] = t
    IN  [i \in 1..Len(list) |->
            CHOOSE t \in tokens :
                Cardinality({u \in tokens : rank(u) < rank(t)}) = i - 1]

\* Array.prototype.join(' '): the tokens with a space between neighbours
RECURSIVE join(_)
join(list) ==
    IF list = << >> THEN << >>
    ELSE IF Len(list) = 1 THEN list
    ELSE <<Head(list), " ">> \o join(Tail(list))

\* the group key taken from the class attribute as written
className_Unsorted(div) == join(div.classList)

\* Array.from(div.classList).sort().join(' ') (line 186)
className(div) == join(sort(div.classList))

\* the test of line 187
counted(div) == className(div) # << >> /\ Len(trim(div.textContent)) > 10

\* allDivs.forEach(...) (lines 185-194): the groups in the order their keys
\* were created, each with its elements in document order
RECURSIVE divGroups(_, _, _)
divGroups(allDivs, i, groups) ==
    IF i > Len(allDivs) THEN groups
    ELSE LET div == allDivs[i]
             at  == {g \in 1..Len(groups) :
                        groups[g].className = className(div)}
         IN  divGroups(allDivs, i + 1,
                IF ~counted(div) THEN groups
                ELSE IF at = {}
                THEN Append(groups, [className |-> className(div),
                                     elements |-> <<i>>])
                ELSE [g \in 1..Len(groups) |->
                         IF g \in at
                         THEN [groups[g] EXCEPT
                                 !.elements = Append(groups[g].elements, i)]
                         ELSE groups[g]])

\* Object.keys(divGroups).forEach(...) (lines 197-206)
messageElements(allDivs) ==
    LET groups == divGroups(allDivs, 1, << >>)
        repeated(g) == Len(g.elements) >= 2
        kept == SelectSeq(groups, repeated)
    IN  [k \in 1..Len(kept) |->
            [className |-> kept[k].className,
             count     |-> Len(kept[k].elements),
             elements  |-> kept[k].elements]]

\* findTranscript calls searchIFrameForTranscript on the document
findTranscript ==
    /\ ~results.ran
    /\ results' = [ran |-> TRUE, messageElements |-> messageElements(divs)]
    /\ NoCall
    /\ UNCHANGED <<phase, boundId, conversationId, sessionlessId, log,
                   processed, isActive, subscribed, observer, interval,
                   retries, attempts, records, articles, text, node, markup,
                   late, now, inbound, last, timeEl, divs, publisher, page>>

(***************************************************************************)
(* The Change Watcher with the host lifecycle: frame location and its      *)
(* retries, the observer callback, the article poll, resets and teardown,  *)
(* over a document that gains articles and text.                           *)
(***************************************************************************)
NextWatch ==
    \/ \E found \in FrameStates : init(found)
    \/ \E found \in FrameStates : retryTimer(found)
    \/ observerCallback
    \/ \E found \in DocStates : articleCheck(found)
    \/ \E id \in ConvIds \cup {NULL} : updateView(id)
    \/ destroy
    \/ \E e \in Elems, t \in TextVals, k \in NodeKinds, isEl \in BOOLEAN :
          insertArticle(e, t, k, isEl)
    \/ \E e \in Elems, isEl \in BOOLEAN : fillArticle(e, isEl)

SpecWatch == Init /\ [][NextWatch]_vars

(***************************************************************************)
(* The conversation session with the host lifecycle: inbound custom events *)
(* and postMessages, bound-id updates and teardown, while the clock runs.  *)
(***************************************************************************)
NextSession ==
    \/ \E found \in FrameStates : init(found)
    \/ \E detail \in CustomDetails : handleCustomTranscriptEvent(detail)
    \/ \E data \in PostMessages : handlePostMessage(data)
    \/ \E id \in ConvIds \cup {NULL} : updateView(id)
    \/ destroy
    \/ tick

SpecSession == Init /\ [][NextSession]_vars

(***************************************************************************)
(* The three producers of the log side by side: the observer callback,     *)
(* the scan and poll, and inbound custom events whose timestamps are not   *)
(* in arrival order, over reachable frames and one bound conversation.     *)
(***************************************************************************)
OrderDetails ==
    [present : {TRUE}, conversationId : {NULL}, hasUtterance : {TRUE},
     speaker : {"Agent"}, timestamp : Times]

InitOrder == Init /\ boundId = "abc-123"

NextOrder ==
    \/ init("ok")
    \/ observerCallback
    \/ articleCheck("ok")
    \/ \E detail \in OrderDetails : handleCustomTranscriptEvent(detail)
    \/ \E e \in Elems, t \in {TxtEmpty, TxtHello}, isEl \in BOOLEAN :
          insertArticle(e, t, "markdown", isEl)
    \/ \E e \in Elems, isEl \in BOOLEAN : fillArticle(e, isEl)
    \/ tick

SpecOrder == InitOrder /\ [][NextOrder]_vars

(***************************************************************************)
(* Speaker extraction and mapping: every article carries one speaker       *)
(* markup drawn from Markups, over reachable frames.                       *)
(***************************************************************************)
InitSender ==
    /\ InitCtl
    /\ boundId = "abc-123"
    /\ \E m \in Markups : markup = [e \in Elems |-> m]
    /\ NoTimes
    /\ NoFinder
    /\ NoPublisher

NextSender ==
    \/ init("ok")
    \/ observerCallback
    \/ articleCheck("ok")
    \/ \E e \in Elems, isEl \in BOOLEAN :
          insertArticle(e, TxtHello, "markdown", isEl)

SpecSender == InitSender /\ [][NextSender]_vars

(***************************************************************************)
(* The AI analysis: utterances arrive from the document and from inbound   *)
(* events while the requests to the AI service complete or fail.           *)
(***************************************************************************)
InitAI == Init /\ boundId = "abc-123"

NextAI ==
    \/ \E found \in {"noOuter", "innerDenied", "ok"} : init(found)
    \/ retryTimer("ok")
    \/ articleCheck("ok")
    \/ \E detail \in OrderDetails : handleCustomTranscriptEvent(detail)
    \/ \E e \in Elems : insertArticle(e, TxtHello, "markdown", TRUE)
    \/ \E outcome \in FetchOutcomes : fetchDone(outcome)
    \/ \E t \in {ToastConnected, ToastError} : toastExpire(t)

SpecAI == InitAI /\ [][NextAI]_vars

(***************************************************************************)
(* The log under all its writers: the watcher over reachable frames,       *)
(* inbound events and messages whose timestamp may fail to parse, host     *)
(* updates of the bound id and teardown, after init() has configured the   *)
(* AI service.                                                             *)
(***************************************************************************)
LogDetails ==
    [present : {TRUE}, conversationId : {NULL, "abc-123"},
     hasUtterance : {TRUE}, speaker : {"Agent"},
     timestamp : {0, InvalidDate}]

LogMessages ==
    [present : {TRUE}, type : {"omnichannelTranscriptUpdate"},
     conversationId : {NULL}, speaker : {"Customer"},
     timestamp : {0, InvalidDate}]

NextLog ==
    \/ init("ok")
    \/ observerCallback
    \/ articleCheck("ok")
    \/ \E detail \in LogDetails : handleCustomTranscriptEvent(detail)
    \/ \E data \in LogMessages : handlePostMessage(data)
    \/ \E id \in {NULL, "abc-123"} : updateView(id)
    \/ destroy
    \/ \E e \in Elems, isEl \in BOOLEAN :
          insertArticle(e, TxtHello, "markdown", isEl)

InitLog == Init /\ boundId \in {NULL, "abc-123"}

SpecLog == InitLog /\ [][NextLog]_vars

(***************************************************************************)
(* The Change Watcher when its timers fire: init() is called, a pending    *)
(* retry timer (setTimeout, index.ts 301 / 310) fires, and the 500 ms      *)
(* interval (377) keeps firing; each of the two eventually runs at a       *)
(* moment when the frames and the inner document can be reached.  The     *)
(* host neither changes the bound id nor tears the control down.           *)
(***************************************************************************)
NextLive ==
    \/ \E found \in FrameStates : init(found)
    \/ \E found \in FrameStates : retryTimer(found)
    \/ observerCallback
    \/ \E found \in DocStates : articleCheck(found)
    \/ \E e \in Elems, t \in {TxtEmpty, TxtHello}, k \in NodeKinds,
          isEl \in BOOLEAN : insertArticle(e, t, k, isEl)
    \/ \E e \in Elems, isEl \in BOOLEAN : fillArticle(e, isEl)

SpecLive ==
    /\ InitOrder
    /\ [][NextLive]_vars
    /\ WF_vars(\E found \in FrameStates : init(found))
    /\ WF_vars(retryTimer("ok"))
    /\ WF_vars(articleCheck("ok"))

(***************************************************************************)
(* Timestamps of DOM-derived utterances: every article may carry a time    *)
(* element, and the clock runs while the watcher works.                    *)
(***************************************************************************)
InitStamp ==
    /\ InitCtl
    /\ boundId = "abc-123"
    /\ markup = [e \in Elems |-> markupOf(e)]
    /\ timeEl \in [Elems -> Times \cup {NoTime}]
    /\ NoFinder
    /\ NoPublisher

NextStamp ==
    \/ init("ok")
    \/ observerCallback
    \/ articleCheck("ok")
    \/ \E e \in Elems, isEl \in BOOLEAN :
          insertArticle(e, TxtHello, "markdown", isEl)
    \/ tick

SpecStamp == InitStamp /\ [][NextStamp]_vars

(***************************************************************************)
(* IFrameTranscriptFinder over every document of at most MaxDivs divs.     *)
(***************************************************************************)
InitFinder ==
    /\ InitCtl
    /\ markup = [e \in Elems |-> markupOf(e)]
    /\ NoTimes
    /\ divs \in Docs
    /\ results = NotRun
    /\ NoPublisher

NextFinder == findTranscript

SpecFinder == InitFinder /\ [][NextFinder]_vars

(***************************************************************************)
(* Properties.                                                             *)
(***************************************************************************)
AllIds == ConvIds \cup {NULL}

\* the positions of the utterances of log lg that came from article e
from(lg, e) == {i \in DOMAIN lg : lg[i].src = e}

countIn(lg, e) == Cardinality(from(lg, e))

\* article e gained its utterance in this step
appendedNow(e) == countIn(log, e) = 0 /\ countIn(log', e) = 1

posIn(lg, e) == CHOOSE i \in from(lg, e) : TRUE

\* the observer callback acts on record r (it passes the instanceof test and,
\* for a content change, the markdown node is the one that holds the text)
effective(r) ==
    r.isElement /\ (r.kind = "content" => node[r.el] = "markdown")

firstEffective(e) ==
    CHOOSE i \in DOMAIN records :
        /\ records[i].el = e /\ effective(records[i])
        /\ \A j \in 1..(i - 1) :
              ~(records[j].el = e /\ effective(records[j]))

hasEffective(e) ==
    \E i \in DOMAIN records : records[i].el = e /\ effective(records[i])

indexOf(list, e) == CHOOSE i \in DOMAIN list : list[i] = e

(***************************************************************************)
(* C1.  At most once: whatever the interleaving of observer callbacks,     *)
(* initial scans and poll ticks, the log never holds two utterances that   *)
(* came from the same article element.                                     *)
(***************************************************************************)
C1_AtMostOnce ==
    \A e \in Elems : countIn(log, e) <= 1

\* the poll (or the scan) has processed an element whose mutation record is
\* still queued for the observer callback
C1_Witness ==
    /\ observer /\ interval
    /\ \E i \in DOMAIN records :
          /\ effective(records[i])
          /\ records[i].el \in processed
          /\ countIn(log, records[i].el) = 1

(***************************************************************************)
(* C2.  Late fill: an article inserted without text and later filled with  *)
(* "Hello" never has two utterances nor one with another text, and once    *)
(* the fill has been presented to the watcher (a poll tick that reaches    *)
(* the document, or an observer callback whose record targets an element   *)
(* inside the article's markdown node) the log holds exactly one           *)
(* utterance for it, with text "Hello".                                    *)
(***************************************************************************)
lateFilled(e) ==
    e \in late /\ inDom(e) /\ text[e] = TxtHello /\ node[e] # "raw"

C2_State ==
    \A e \in late :
        /\ countIn(log, e) <= 1
        /\ \A i \in from(log, e) : log[i].text = TxtHello

\* log lg holds exactly one utterance for article e, with text "Hello"
heldOnce(lg, e) ==
    /\ countIn(lg, e) = 1
    /\ \A i \in from(lg, e) : lg[i].text = TxtHello

\* a step that leaves a late-filled article without its utterance is neither
\* a poll tick that reaches the document nor an observer callback that was
\* handed the fill
C2_Step ==
    /\ \A e \in Elems :
          (lateFilled(e) /\ ~heldOnce(log', e)) => ~articleCheck("ok")
    /\ \A i \in DOMAIN records :
          (/\ records[i].kind = "content"
           /\ effective(records[i])
           /\ lateFilled(records[i].el)
           /\ countIn(log', records[i].el) # 1) => ~observerCallback

C2_LateFill == C2_State /\ [][C2_State' /\ C2_Step]_vars

\* the fill was noticed by the poll while its mutation record is still queued
C2_Witness ==
    \E i \in DOMAIN records :
        /\ records[i].kind = "content"
        /\ effective(records[i])
        /\ lateFilled(records[i].el)
        /\ records[i].el \in processed
        /\ \E k \in from(log, records[i].el) : log[k].text = TxtHello

(***************************************************************************)
(* C3.  Observation order: a step only ever extends the log at its tail    *)
(* (or empties it on reset), whatever the timestamps of the utterances;    *)
(* the elements appended by one observer callback appear in the order of   *)
(* their records in the batch, and the elements appended by one scan or    *)
(* poll tick appear in document order.                                     *)
(***************************************************************************)
C3_Step ==
    /\ \/ log' = << >>
       \/ /\ Len(log') >= Len(log)
          /\ SubSeq(log', 1, Len(log)) = log
    /\ observerCallback =>
          \A a, b \in Elems :
              (/\ a # b /\ appendedNow(a) /\ appendedNow(b)
               /\ hasEffective(a) /\ hasEffective(b)
               /\ firstEffective(a) < firstEffective(b)) =>
                  posIn(log', a) < posIn(log', b)
    /\ (articleCheck("ok") \/ retryTimer("ok") \/ init("ok")) =>
          \A a, b \in Elems :
              (/\ a # b /\ appendedNow(a) /\ appendedNow(b)
               /\ indexOf(articles, a) < indexOf(articles, b)) =>
                  posIn(log', a) < posIn(log', b)

C3_OrderPreserved == [][C3_Step]_vars

\* the log order is the order of observation: neither the document order
\* of the articles nor the order of the timestamps
C3_Witness ==
    /\ Len(articles) = 2
    /\ \E i, j \in DOMAIN log :
          i < j /\ log[i].src = articles[2] /\ log[j].src = articles[1]
    /\ \E i, j \in DOMAIN log :
          /\ i < j /\ log[i].src \in Elems /\ log[j].src = 0
          /\ log[i].timestamp > log[j].timestamp

(***************************************************************************)
(* C4.  After destroy() nothing of the control runs any more, so the log   *)
(* never changes again.                                                    *)
(***************************************************************************)
C4_NoAppendAfterDestroy ==
    [][phase = "destroyed" => log' = log]_vars

(***************************************************************************)
(* C5.  A session reset (updateView with a changed conversation id)        *)
(* leaves the watcher detached: no observer connected, no poll running.    *)
(***************************************************************************)
C5_ResetDetaches ==
    [][\A id \in AllIds :
          (updateView(id) /\ id # conversationId) =>
              (~observer' /\ ~interval')]_vars

(***************************************************************************)
(* C6.  Latching is permanent: while the control runs on an id it adopted  *)
(* from an inbound event (the host bound none), no step that leaves the    *)
(* bound id unchanged changes _conversationId.                             *)
(***************************************************************************)
C6_LatchPermanent ==
    [][(/\ boundId = NULL /\ conversationId # NULL
        /\ boundId' = boundId) => conversationId' = conversationId]_vars

(***************************************************************************)
(* C7.  An inbound custom event or postMessage of the documented shape     *)
(* whose conversation id differs from the latched one is accepted: the     *)
(* log grows by exactly one utterance and _conversationId is unchanged.    *)
(***************************************************************************)
C7_Step ==
    (/\ inbound' = inbound + 1
     /\ last'.shaped
     /\ conversationId # NULL
     /\ last'.cid # NULL
     /\ last'.cid # conversationId) =>
        /\ Len(log') = Len(log) + 1
        /\ SubSeq(log', 1, Len(log)) = log
        /\ conversationId' = conversationId

C7_MismatchAccepted == [][C7_Step]_vars

C7_Witness ==
    /\ last.op \in {"handleCustomTranscriptEvent", "handlePostMessage"}
    /\ last.shaped
    /\ last.cid # NULL
    /\ conversationId # NULL
    /\ last.cid # conversationId
    /\ log # << >>

C9_State ==
    LET once == resetTranscript(ctl) IN
    /\ once.log = << >> /\ once.processed = {}
    /\ resetTranscript(once) = once
    /\ (log = << >> /\ processed = {}) =>
           (once.log = log /\ once.processed = processed)

C9_Step ==
    \A id \in AllIds :
        (updateView(id) /\ id # conversationId) =>
            /\ log' = << >> /\ processed' = {}
            /\ [ctl EXCEPT !.log = log', !.processed = processed',
                           !.rendered = rendered',
                           !.isActive = isActive'] = resetTranscript(ctl)

C9_ResetIdempotent == [](C9_State) /\ [][C9_Step]_vars

\* a reset has just discarded a log of two utterances and their index
C9_Witness ==
    /\ last.op = "updateView"
    /\ last.dropped >= 2
    /\ log = << >> /\ processed = {} /\ ~isActive

(***************************************************************************)
(* C10.  Every utterance of the log has speaker Agent or Customer.         *)
(***************************************************************************)
C10_SpeakerClosed ==
    \A i \in DOMAIN log : log[i].speaker \in {"Agent", "Customer"}

\* the utterances of the log that were extracted from an article
fromArticles == {i \in DOMAIN log : log[i].src \in Elems}

(***************************************************************************)
(* C11.  The speaker mapping is total: for every raw sender (the empty     *)
(* string, mixed case, non-ASCII and the "Unknown" sentinel included) it   *)
(* yields Agent or Customer, and every article that was marked processed   *)
(* has its utterance, with one of the two speakers.                        *)
(***************************************************************************)
C11_MappingTotal ==
    /\ \A s \in SenderInputs : mapSpeaker(s) \in {"Agent", "Customer"}
    /\ \A i \in fromArticles : log[i].speaker \in {"Agent", "Customer"}
    /\ \A e \in processed : countIn(log, e) = 1

\* an article whose sender is a non-ASCII name matching no rule was mapped
C11_Witness ==
    \E i \in fromArticles :
        /\ senderOf(log[i].src) = LblOedegaard
        /\ log[i].speaker = "Agent"

(***************************************************************************)
(* C12.  The mapping is a case-insensitive substring match in which the    *)
(* first matching rule wins: a sender containing "customer", "mike",       *)
(* "poulsen", "bot" or "cu" is Customer even when it also contains         *)
(* "unknown", "you", "caller" or "guest"; otherwise a sender containing    *)
(* one of those four is Agent; otherwise the default party, Agent.         *)
(* "Mike Poulsen" is Customer.                                             *)
(***************************************************************************)
CustomerAliases ==
    {<<"c","u","s","t","o","m","e","r">>, <<"m","i","k","e">>,
     <<"p","o","u","l","s","e","n">>, <<"b","o","t">>, <<"c","u">>}

AgentWords ==
    {<<"u","n","k","n","o","w","n">>, <<"y","o","u">>,
     <<"c","a","l","l","e","r">>, <<"g","u","e","s","t">>}

\* s contains one of the words, letter case ignored
hasAny(s, words) ==
    \E w \in words : \E k \in 0..(Len(s) - Len(w)) :
        \A j \in 1..Len(w) : lowerChar(s[k + j]) = w[j]

expectedSpeaker(s) ==
    IF hasAny(s, CustomerAliases) THEN "Customer"
    ELSE IF hasAny(s, AgentWords) THEN "Agent"
    ELSE "Agent"

C13_FixedMapping ==
    \A i \in fromArticles :
        /\ senderOf(log[i].src) = LblCustomer => log[i].speaker = "Agent"
        /\ senderOf(log[i].src) = LblUnknown => log[i].speaker = "Customer"

(***************************************************************************)
(* C14.  As claimed: the raw sender is the first name found in the order   *)
(* dedicated selector, [class*=sender], [class*=from], the article's own   *)
(* aria-label "<name> said:", data-sender, data-from, and "Unknown" when   *)
(* every source is absent.                                                 *)
(***************************************************************************)
firstName(names) ==
    LET given == SelectSeq(names, LAMBDA n : n # << >>) IN
    IF given = << >> THEN LblUnknown ELSE Head(given)

claimedSender(m) ==
    firstName(<<trim(m.sel.text), trim(m.cls.text), trim(m.frm.text),
                matchSaid(m.label.text), m.dataSender.text,
                m.dataFrom.text>>)

OnlyBotCULabel == [NoMarkup EXCEPT !.label = Some(AriaBotCU)]

C14_ExtractionOrder ==
    \A e \in processed :
        /\ senderOf(e) = claimedSender(markup[e])
        /\ markup[e] = OnlyBotCULabel => senderOf(e) = LblBotCU

(***************************************************************************)
(* C14, amended.  The raw sender is the trimmed text of the first element  *)
(* found by, in this order, the dedicated selector, [class*=sender],       *)
(* [class*=from] and a descendant whose aria-label contains "from" or      *)
(* "said"; when no element is found or that text is empty, the name        *)
(* before " said:" in the article's own aria-label, then data-sender, then *)
(* data-from, and "Unknown" when all are absent.  An article with only     *)
(* the aria-label "Bot CU said: ..." yields "Bot CU".                      *)
(***************************************************************************)
amendedSender(m) ==
    LET elements == SelectSeq(<<m.sel, m.cls, m.frm, m.aria>>,
                              LAMBDA x : x.present)
        byElement == IF elements = << >> THEN << >>
                     ELSE trim(Head(elements).text)
    IN  firstName(<<byElement, matchSaid(m.label.text), m.dataSender.text,
                    m.dataFrom.text>>)

C14_ExtractionOrderAmended ==
    \A e \in processed :
        /\ senderOf(e) = amendedSender(markup[e])
        /\ senderOf(e) # << >>
        /\ markup[e] = NoMarkup => senderOf(e) = LblUnknown
        /\ markup[e] = OnlyBotCULabel => senderOf(e) = LblBotCU

\* the article that carries only the aria-label was processed as "Bot CU"
C14_Witness ==
    \E i \in fromArticles :
        /\ markup[log[i].src] = OnlyBotCULabel
        /\ senderOf(log[i].src) = LblBotCU
        /\ log[i].speaker = "Customer"


(***************************************************************************)
(* C15.  A failed frame lookup schedules exactly one retry, and the        *)
(* retries are bounded: once more than MaxAttempts lookups in a row have   *)
(* failed, no retry timer remains pending.                                 *)
(***************************************************************************)
C15_RetriesBounded ==
    /\ retries <= 1
    /\ attempts > MaxAttempts => retries = 0

(***************************************************************************)
(* C16.  A cross-context denial raised while a frame's document is read    *)
(* never leaves startIFrameMonitoring (run by init or by a retry timer)    *)
(* as an exception.                                                        *)
(***************************************************************************)
C16_DenialCaught ==
    ~(last.op \in {"init", "retryTimer"} /\ last.threw)

(***************************************************************************)
(* C17.  A postMessage whose payload does not carry the exact type         *)
(* "omnichannelTranscriptUpdate" is ignored: the log, _conversationId and  *)
(* _sessionlessId are unchanged and the handler raises no error.           *)
(***************************************************************************)
C17_ForeignIgnored ==
    [][(/\ inbound' = inbound + 1
        /\ last'.op = "handlePostMessage"
        /\ ~last'.shaped) =>
           /\ log' = log
           /\ conversationId' = conversationId
           /\ sessionlessId' = sessionlessId
           /\ ~last'.threw]_vars

(***************************************************************************)
(* C18.  A failed AI analysis (fetch rejected, or a response that is not   *)
(* ok) is reported by the toast "Error communicating with AI" and an       *)
(* error line in the AI chat and leaves the log and the processed index    *)
(* unchanged; while that toast is on display an inbound utterance is       *)
(* still appended and a poll still appends every article that has text.    *)
(***************************************************************************)
C18_Step ==
    /\ \A outcome \in {"network", "status", "auth"} :
          fetchDone(outcome) =>
              /\ log' = log
              /\ processed' = processed
              /\ ToastError \in toasts'
              /\ Len(aiChatMessages') = Len(aiChatMessages) + 1
              /\ aiChatMessages'[Len(aiChatMessages')].text
                     \in {MsgError, MsgAuthFailed}
    /\ (/\ ToastError \in toasts
        /\ inbound' = inbound + 1
        /\ last'.shaped) =>
           (Len(log') = Len(log) + 1 /\ SubSeq(log', 1, Len(log)) = log)
    /\ (ToastError \in toasts /\ articleCheck("ok")) =>
           \A e \in Elems :
               (inDom(e) /\ node[e] # "raw" /\ trim(text[e]) # << >>) =>
                   countIn(log', e) >= 1

C18_FailureContained == [][C18_Step]_vars

\* while the error toast is on display the step just taken has appended an
\* utterance and requested its analysis
C18_Witness ==
    /\ ToastError \in toasts
    /\ log # << >>
    /\ sent # << >>

(***************************************************************************)
(* C19.  In a control whose init() has completed, every utterance that is  *)
(* appended triggers exactly one sendToAzureOpenAI call, and the i-th      *)
(* call of a step carries the transcript as it stands after the i-th       *)
(* append of that step.                                                    *)
(***************************************************************************)
C19_Step ==
    (phase = "initialized" /\ Len(log') > Len(log)) =>
        /\ SubSeq(log', 1, Len(log)) = log
        /\ Len(sent') = Len(log') - Len(log)
        /\ \A i \in 1..Len(sent') :
              /\ Len(sent'[i].Messages) = Len(log) + i
              /\ \A j \in 1..(Len(log) + i) :
                    /\ sent'[i].Messages[j].Caller = log'[j].speaker
                    /\ sent'[i].Messages[j].Message = log'[j].text
                    /\ sent'[i].Messages[j].Timestamp = log'[j].timestamp

C19_SendPerAppend == [][C19_Step]_vars

\* one callback has appended two utterances and issued two requests, the
\* first carrying the transcript without the second utterance
C19_Witness ==
    /\ phase = "initialized"
    /\ Len(sent) = 2
    /\ Len(sent[1].Messages) = Len(log) - 1
    /\ Len(sent[2].Messages) = Len(log)

(***************************************************************************)
(* C20.  The payload sent on a new utterance carries the full context:     *)
(* all transcript messages appended so far and, as its AIAssistant list,   *)
(* the AI chat messages that existed when the utterance arrived.           *)
(***************************************************************************)
C20_FullContext ==
    [][sent' # << >> =>
          /\ Len(sent'[1].Messages) = Len(log) + 1
          /\ Len(sent'[1].AIAssistant) = Len(aiChatMessages)
          /\ \A i \in 1..Len(aiChatMessages) :
                sent'[1].AIAssistant[i].Message = aiChatMessages[i].text]_vars

\* the class set of a div, whatever the order of its tokens
classSet(div) == {div.classList[i] : i \in 1..Len(div.classList)}

ClassSets == {classSet([classList |-> l]) : l \in ClassLists}

\* the divs of the document that carry exactly the class set S
members(S) == {i \in 1..Len(divs) : classSet(divs[i]) = S}

\* the members with more than 10 characters of trimmed text
longMembers(S) ==
    {i \in members(S) : Len(trim(divs[i].textContent)) > 10}

\* the elements reported as message candidates
candidates ==
    UNION {{results.messageElements[k].elements[j] :
               j \in 1..Len(results.messageElements[k].elements)} :
           k \in 1..Len(results.messageElements)}

\* the document of the example: three "msg x" divs and one "x" div
ExampleDoc(d) ==
    /\ Len(d) = 4
    /\ \E one \in 1..4 :
          /\ classSet(d[one]) = {"x"}
          /\ \A i \in (1..4) \ {one} : classSet(d[i]) = {"msg", "x"}

(***************************************************************************)
(* C21 as stated.  The message candidates are the members of the one      *)
(* class-set group that has at least 2 members and the highest member      *)
(* count (none when no group has 2 members); for three "msg x" divs and    *)
(* one "x" div they are exactly the three "msg x" divs.                    *)
(***************************************************************************)
C21_HighestGroupOnly ==
    results.ran =>
        /\ IF \A S \in ClassSets : Cardinality(members(S)) < 2
           THEN candidates = {}
           ELSE \E S \in ClassSets :
                   /\ Cardinality(members(S)) >= 2
                   /\ \A T \in ClassSets :
                         Cardinality(members(T)) <= Cardinality(members(S))
                   /\ candidates = members(S)
        /\ ExampleDoc(divs) => candidates = members({"msg", "x"})

(***************************************************************************)
(* C21, amended.  Among the divs that have a class and more than 10        *)
(* characters of trimmed text, every exact class set with at least 2       *)
(* members is reported, once, with its members in document order; nothing  *)
(* else is reported.  For three "msg x" divs and one "x" div, all with     *)
(* text of more than 10 characters, the candidates are exactly the three   *)
(* "msg x" divs.                                                           *)
(***************************************************************************)
C21_EveryRepeatedGroup ==
    results.ran =>
        /\ \A S \in ClassSets \ {{}} :
              Cardinality(longMembers(S)) >= 2 =>
                 \E k \in 1..Len(results.messageElements) :
                    LET m == results.messageElements[k] IN
                    /\ m.count = Cardinality(longMembers(S))
                    /\ Len(m.elements) = m.count
                    /\ {m.elements[j] : j \in 1..m.count} = longMembers(S)
                    /\ \A j \in 1..(m.count - 1) :
                          m.elements[j] < m.elements[j + 1]
        /\ Len(results.messageElements) =
              Cardinality({S \in ClassSets \ {{}} :
                              Cardinality(longMembers(S)) >= 2})
        /\ (ExampleDoc(divs)
              /\ \A i \in 1..4 : Len(trim(divs[i].textContent)) > 10)
              => candidates = members({"msg", "x"})

\* the example document has been searched; one of its "msg x" divs lists
\* its classes as "x msg"
C21_Witness ==
    /\ results.ran
    /\ ExampleDoc(divs)
    /\ \A i \in 1..4 : Len(trim(divs[i].textContent)) > 10
    /\ \E i \in 1..4 : divs[i].classList = <<"x", "msg">>
    /\ \E i \in 1..4 : divs[i].classList = <<"msg", "x">>
    /\ Len(results.messageElements) = 1
    /\ results.messageElements[1].count = 3

(***************************************************************************)
(* C22.  Empty text is skipped: a step never marks, nor appends an         *)
(* utterance for, an article whose extracted text is empty or only         *)
(* whitespace when the step begins; the article stays out of               *)
(* _processedArticles, so that a later scan looks at it again.             *)
(***************************************************************************)
C22_Step ==
    \A e \in Elems :
        extractText(e) = << >> =>
            /\ e \in processed' => e \in processed
            /\ countIn(log', e) <= countIn(log, e)

C22_EmptySkipped == [][C22_Step]_vars

\* the attached watcher has nothing queued: it has looked at a whitespace-only
\* article, left it unmarked, and appended an article that follows it
C22_Witness ==
    /\ observer /\ interval /\ records = << >>
    /\ \E e \in Elems, f \in Elems :
          /\ inDom(e) /\ inDom(f)
          /\ indexOf(articles, e) < indexOf(articles, f)
          /\ text[e] = TxtBlank /\ node[e] = "markdown"
          /\ e \notin processed /\ countIn(log, e) = 0
          /\ f \in processed /\ countIn(log, f) = 1

(***************************************************************************)
(* C23.  Deduplication is by element identity, never by content: a poll    *)
(* tick that reaches the document leaves every article that has text with  *)
(* exactly one utterance of its own, also when another article with the    *)
(* same sender and the same text has been appended before; two distinct    *)
(* articles with identical sender and text have two utterances.            *)
(***************************************************************************)
sameContent(e, f) ==
    /\ e # f /\ inDom(e) /\ inDom(f)
    /\ senderOf(e) = senderOf(f)
    /\ extractText(e) = extractText(f)
    /\ extractText(e) # << >>

C23_Step ==
    articleCheck("ok") =>
        \A e \in Elems, f \in Elems :
            sameContent(e, f) =>
                /\ countIn(log', e) = 1 /\ countIn(log', f) = 1
                /\ posIn(log', e) # posIn(log', f)

C23_IdentityOnly ==
    /\ [](\A e \in processed : countIn(log, e) = 1)
    /\ [][C23_Step]_vars

\* two distinct articles with the same sender and text both have their
\* utterance, equal in speaker and text
C23_Witness ==
    \E e \in Elems, f \in Elems :
        /\ sameContent(e, f)
        /\ countIn(log, e) = 1 /\ countIn(log, f) = 1
        /\ log[posIn(log, e)].speaker = log[posIn(log, f)].speaker
        /\ log[posIn(log, e)].text = log[posIn(log, f)].text

(***************************************************************************)
(* C24.  The log is append-only: a step in which resetTranscript does not  *)
(* run keeps every utterance of the log (id, speaker, text, timestamp,     *)
(* sentiment) at its position and only adds entries behind them, each      *)
(* addUtterance call adding exactly one entry at the tail; a step in which *)
(* resetTranscript runs, and no other, removes utterances, and it removes  *)
(* all of them.                                                            *)
(***************************************************************************)
\* the step runs resetTranscript: updateView is given another id
resets ==
    \E id \in AllIds : id # conversationId /\ updateView(id)

kept(u, v) ==
    /\ u.id = v.id /\ u.speaker = v.speaker /\ u.text = v.text
    /\ u.timestamp = v.timestamp /\ u.sentiment = v.sentiment

C24_Step ==
    /\ resets => log' = << >>
    /\ ~resets =>
          /\ Len(log') >= Len(log)
          /\ \A i \in 1..Len(log) : kept(log[i], log'[i])

\* one addUtterance call on the log as it stands
C24_Call ==
    \A t \in Times \cup {InvalidDate} :
        LET after == addUtterance(ctl, "Agent", TxtHello, t, UNDEFINED, 0).log
        IN  /\ Len(after) = Len(log) + 1
            /\ \A i \in 1..Len(log) : kept(log[i], after[i])
            /\ after[Len(after)].timestamp = t

C24_AppendOnly == [](C24_Call) /\ [][C24_Step]_vars

\* an utterance whose timestamp sorts before that of the entry in front of
\* it sits at the tail of a log that also holds an utterance of an article
C24_Witness ==
    /\ Len(log) >= 2
    /\ log[Len(log)].timestamp < log[Len(log) - 1].timestamp
    /\ \E e \in Elems : countIn(log, e) = 1

(***************************************************************************)
(* C25.  When the timers fire and the frames and the inner document are    *)
(* reachable from some moment on, the watcher eventually is attached,      *)
(* whatever locate failure occurred before.                                *)
(***************************************************************************)
C25_EventuallyAttached == <>observer

(***************************************************************************)
(* C26.  While the watcher is attached and its interval keeps firing,      *)
(* every article that is in the document with non-empty message text is    *)
(* eventually appended, with or without a mutation record for it.          *)
(***************************************************************************)
C26_EventuallyAppended ==
    \A e \in Elems :
        (interval /\ inDom(e) /\ extractText(e) # << >>)
            ~> (countIn(log, e) = 1)

\* the poll has appended an article whose mutation record the observer
\* callback would not act on and has not even received
C26_Witness ==
    \E i \in DOMAIN records :
        /\ records[i].kind = "added"
        /\ ~records[i].isElement
        /\ interval
        /\ countIn(log, records[i].el) = 1

(***************************************************************************)
(* C27.  A failure at one element stays at that element: a poll tick that  *)
(* reaches the document leaves every article that has text marked and      *)
(* appended, an observer callback does so for every article its batch      *)
(* presents as an added Element, and neither callback stops the observer   *)
(* or the interval or ends in an exception, also when processing an        *)
(* element of the batch or scan has raised one.                            *)
(***************************************************************************)
C27_Step ==
    /\ articleCheck("ok") =>
          \A e \in Elems :
              (inDom(e) /\ extractText(e) # << >>) =>
                  e \in processed' /\ countIn(log', e) = 1
    /\ observerCallback =>
          \A i \in DOMAIN records :
              (/\ records[i].kind = "added"
               /\ records[i].isElement
               /\ extractText(records[i].el) # << >>) =>
                  /\ records[i].el \in processed'
                  /\ countIn(log', records[i].el) = 1
    /\ (observerCallback \/ articleCheck("ok")) =>
          /\ observer' = observer /\ interval' = interval
          /\ last' = last

C27_Contained == [][C27_Step]_vars

\* the step just taken has caught an exception at each of two articles and
\* has appended both
C27_Witness ==
    /\ caught = 2
    /\ observer /\ interval
    /\ \A e \in Elems : e \in processed /\ countIn(log, e) = 1

(***************************************************************************)
(* C28.  _sessionlessId is created once: once it holds a value, no step    *)
(* (inbound custom event, postMessage, updateView or any other) gives it   *)
(* a different value.                                                      *)
(***************************************************************************)
C28_CreatedOnce ==
    [][sessionlessId # NoSession => sessionlessId' = sessionlessId]_vars

(***************************************************************************)
(* C29.  The article's own text is the last resort of the text             *)
(* extraction: a poll tick that reaches the document leaves an article     *)
(* that has no message node but non-empty text of its own with an          *)
(* utterance.                                                              *)
(***************************************************************************)
C29_RawTextLastResort ==
    [][articleCheck("ok") =>
          \A e \in Elems :
              (inDom(e) /\ node[e] = "raw" /\ trim(text[e]) # << >>) =>
                  countIn(log', e) = 1]_vars

(***************************************************************************)
(* C30.  An utterance extracted from an article that carries a time        *)
(* element has the time of that element as its timestamp.                  *)
(***************************************************************************)
C30_TimeElementFirst ==
    \A i \in DOMAIN log :
        (log[i].src \in Elems /\ timeEl[log[i].src] # NoTime) =>
            log[i].timestamp = timeEl[log[i].src]

(***************************************************************************)
(* Teardown.  The page dispatches an omnichannelTranscriptUpdate event or  *)
(* posts a message to the window whether or not the control listens: the   *)
(* handler bound by subscribeToTranscriptEvents (index.ts 714-722) runs    *)
(* while its listener is registered, and after                             *)
(* unsubscribeFromTranscriptEvents (1359-1376) nothing of the control      *)
(* runs.                                                                   *)
(***************************************************************************)
unheard(op, cid) ==
    /\ inbound < MaxEvents
    /\ inbound' = inbound + 1
    /\ last' = [op |-> op, cid |-> cid, shaped |-> FALSE,
                dropped |-> NoReset, threw |-> FALSE]
    /\ SetCtl(ctl)
    /\ UNCHANGED <<phase, boundId, conversationId, sessionlessId, subscribed,
                   azureOpenAIEndpoint, toasts>>
    /\ UNCHANGED envVars

\* window.dispatchEvent(new CustomEvent('omnichannelTranscriptUpdate', ...))
dispatchEvent(detail) ==
    IF subscribed
    THEN handleCustomTranscriptEvent(detail)
    ELSE unheard("dispatchEvent", detail.conversationId)

\* window.postMessage(data, ...)
postMessage(data) ==
    IF subscribed
    THEN handlePostMessage(data)
    ELSE unheard("postMessage", data.conversationId)

NextTeardown ==
    \/ \E found \in {"noOuter", "innerDenied", "ok"} : init(found)
    \/ retryTimer("ok")
    \/ articleCheck("ok")
    \/ \E detail \in LogDetails : dispatchEvent(detail)
    \/ \E data \in LogMessages : postMessage(data)
    \/ destroy
    \/ \E e \in Elems : insertArticle(e, TxtHello, "markdown", TRUE)
    \/ tick

SpecTeardown == InitLog /\ [][NextTeardown]_vars

(***************************************************************************)
(* C31.  After destroy(), an omnichannelTranscriptUpdate event or a        *)
(* window message delivered to the page leaves the log, _conversationId    *)
(* and _sessionlessId as they were.                                        *)
(***************************************************************************)
C31_Step ==
    (phase = "destroyed" /\ inbound' # inbound) =>
        UNCHANGED <<log, conversationId, sessionlessId>>

C31_DeafAfterDestroy == [][C31_Step]_vars

\* an event that would have latched an id and appended was delivered after
\* destroy() to a control that never latched one
C31_Witness ==
    /\ phase = "destroyed"
    /\ last.op = "dispatchEvent"
    /\ last.cid = "abc-123"
    /\ conversationId = NULL

(***************************************************************************)
(* WebAPI polling (index.ts 848-908).  startPolling is the third           *)
(* integration method of subscribeToTranscriptEvents (line 725, shipped    *)
(* commented out) and stopPolling is part of                               *)
(* unsubscribeFromTranscriptEvents (1373): polling as it runs once the     *)
(* line is enabled.  A record of msdyn_transcript is                       *)
(* [msdyn_transcriptid, createdon]; its id is a GUID, which no generated   *)
(* `utterance-...` id equals.                                              *)
(***************************************************************************)
TranscriptIds == (MaxClock + 1)..(MaxClock + NumTranscripts)

\* result.entities of one retrieveMultipleRecords call
EntityLists ==
    UNION {[1..n -> [msdyn_transcriptid : TranscriptIds,
                     createdon : {0, InvalidDate}]] :
           n \in 0..NumTranscripts}

\* the utterance that pollForTranscripts passes to addUtterance (893-899)
polled(transcript) ==
    [id |-> transcript.msdyn_transcriptid, speaker |-> "Unknown",
     text |-> TxtHello, timestamp |-> transcript.createdon,
     sentiment |-> UNDEFINED, src |-> 0]

\* this._transcriptUtterances.find(u => u.id === transcript.msdyn_transcriptid)
existingUtterance(utterances, transcript) ==
    \E i \in 1..Len(utterances) :
        utterances[i].id = transcript.msdyn_transcriptid

\* the forEach of pollForTranscripts adding every record it is given
RECURSIVE pollEntities_NoFind(_, _)
pollEntities_NoFind(entities, c) ==
    IF entities = << >> \/ c.raised THEN c
    ELSE pollEntities_NoFind(Tail(entities), push(polled(Head(entities)), c))

\* result.entities.forEach(...) (index.ts 885-901); an exception ends it
RECURSIVE pollEntities(_, _)
pollEntities(entities, c) ==
    IF entities = << >> \/ c.raised THEN c
    ELSE pollEntities(Tail(entities),
                      IF existingUtterance(c.log, Head(entities))
                      THEN c
                      ELSE push(polled(Head(entities)), c))

\* pollForTranscripts after its await (index.ts 881-907)
pollDone(entities, c) ==
    CHOOSE after \in
        {IF entities = << >> THEN c
         ELSE IF k.raised THEN [k EXCEPT !.raised = FALSE]
              ELSE [k EXCEPT !.isActive = TRUE] :
         k \in {pollEntities(entities, c)}} : TRUE

\* pollForTranscripts up to its await (index.ts 869-879), called by
\* startPolling and by its interval (856, 858-860)
pollForTranscripts ==
    /\ subscribed
    /\ conversationId # NULL
    /\ polls < MaxPolls
    /\ SetCtl([ctl EXCEPT !.polls = polls + 1])
    /\ UNCHANGED <<phase, boundId, conversationId, sessionlessId, subscribed,
                   inbound, last, azureOpenAIEndpoint, toasts>>
    /\ UNCHANGED envVars

\* the promise of retrieveMultipleRecords resolves
pollResult(entities) ==
    /\ polls > 0
    /\ SetCtl(pollDone(entities, [ctl EXCEPT !.polls = polls - 1]))
    /\ last' = [op |-> "pollForTranscripts", cid |-> conversationId,
                shaped |-> FALSE, dropped |-> NoReset, threw |-> FALSE]
    /\ UNCHANGED <<phase, boundId, conversationId, sessionlessId, subscribed,
                   inbound, azureOpenAIEndpoint, toasts>>
    /\ UNCHANGED envVars

NextPoll ==
    \/ init("ok")
    \/ pollForTranscripts
    \/ \E entities \in EntityLists : pollResult(entities)
    \/ \E detail \in LogDetails : handleCustomTranscriptEvent(detail)
    \/ \E id \in {NULL, "abc-123"} : updateView(id)
    \/ destroy
    \/ tick

SpecPoll == InitLog /\ [][NextPoll]_vars

\* the positions of log lg whose utterance has identifier id
withId(lg, id) == {i \in DOMAIN lg : lg[i].id = id}

(***************************************************************************)
(* C32.  Across any number of polls, overlapping ones included, each       *)
(* record id occurs at most once in the log: pollForTranscripts appends a  *)
(* record only if no utterance of the log has its msdyn_transcriptid.      *)
(***************************************************************************)
C32_RecordOnce ==
    \A id \in TranscriptIds : Cardinality(withId(log, id)) <= 1

\* a poll has delivered every record, each held once, while the result of a
\* request issued before that delivery is still awaited
C32_Witness ==
    /\ last.op = "pollForTranscripts"
    /\ polls > 0
    /\ \A id \in TranscriptIds : Cardinality(withId(log, id)) = 1

(***************************************************************************)
(* OmnichannelTranscriptPublisher.js, DOM monitoring.  The form's          *)
(* document holds the elements Nodes under its transcript panel; element n *)
(* is described by                                                         *)
(*   sel       the message selectors (CONFIG.selectors.transcriptMessage)  *)
(*             it matches, none for a wrapper                              *)
(*   hasId     it has an id attribute, which no other element shares       *)
(*   stamped   it has a data-timestamp attribute                           *)
(*   parent    the element it is a child of, 0 for a child of the panel    *)
(* and its text is "Hello".  page.attached are the children of the panel   *)
(* that are in the document; a detached element keeps its subtree and can  *)
(* be attached again.  The variable publisher holds the script's state:    *)
(* _initialized, _observer, _processedMessages, the pending                *)
(* setTimeout(initializeDOMMonitoring) timers, the mutation records queued *)
(* for the observer, and as history whether the form's OnLoad has called   *)
(* initialize and the events dispatched so far.                            *)
(***************************************************************************)
Nodes == 1..NumNodes

MessageSelectors == <<".transcript-message", ".conversation-message">>

Pages ==
    {d \in [Nodes -> [sel : SUBSET {MessageSelectors[1], MessageSelectors[2]},
                      hasId : BOOLEAN, stamped : BOOLEAN,
                      parent : 0..NumNodes]] :
        \A n \in Nodes : d[n].parent < n}

\* element m is a descendant of container (0: the transcript panel) in the
\* tree desc
RECURSIVE isUnder(_, _, _)
isUnder(desc, m, container) ==
    \/ desc[m].parent = container
    \/ desc[m].parent # 0 /\ isUnder(desc, desc[m].parent, container)

\* the child of the panel that element m hangs under
RECURSIVE top(_, _)
top(desc, m) == IF desc[m].parent = 0 THEN m ELSE top(desc, desc[m].parent)

\* container.querySelectorAll(selector): the matching descendants in
\* document order; the panel's descendants are those in the document
RECURSIVE querySelectorAll(_, _, _)
querySelectorAll(container, selector, n) ==
    IF n > NumNodes THEN << >>
    ELSE (IF /\ isUnder(page.desc, n, container)
             /\ container = 0 => top(page.desc, n) \in page.attached
             /\ selector \in page.desc[n].sel
          THEN <<n>> ELSE << >>)
         \o querySelectorAll(container, selector, n + 1)

\* findTranscriptMessages (lines 217-232): an element has querySelectorAll,
\* so the branch that tests container.matches is never taken
findTranscriptMessages(container) ==
    querySelectorAll(container, MessageSelectors[1], 1)
    \o querySelectorAll(container, MessageSelectors[2], 1)

\* extractTimestamp (lines 329-353); the data-timestamp attribute of an
\* element is no reading of the clock
extractTimestamp(element) ==
    IF page.desc[element].stamped THEN MaxClock + element ELSE now

\* getMessageId (lines 269-278); text.substring(0, 50) keeps a text of
\* five characters whole
getMessageId(element) ==
    IF page.desc[element].hasId
    THEN [id |-> element, text |-> << >>, timestamp |-> NoTime]
    ELSE [id |-> 0, text |-> TxtHello, timestamp |-> extractTimestamp(element)]

\* extractAndPublishMessage (lines 237-264) with publishTranscriptUpdate
\* (439-458)
extractAndPublishMessage(messageElement, p) ==
    CHOOSE after \in
        {IF messageId \in p.processedMessages
         THEN p
         ELSE IF trim(TxtHello) = << >>
              THEN p
              ELSE [p EXCEPT
                      !.published =
                          Append(p.published,
                                 [el |-> messageElement,
                                  timestamp |->
                                      extractTimestamp(messageElement)]),
                      !.processedMessages =
                          p.processedMessages \cup {messageId}] :
         messageId \in {getMessageId(messageElement)}} : TRUE

\* messages.forEach(extractAndPublishMessage)
RECURSIVE publishAll(_, _)
publishAll(messages, p) ==
    IF messages = << >> THEN p
    ELSE publishAll(Tail(messages),
                    extractAndPublishMessage(Head(messages), p))

\* processNewNode (lines 193-200)
processNewNode(n, p) == publishAll(findTranscriptMessages(n), p)

\* processExistingMessages (lines 205-212)
processExistingMessages(p) == publishAll(findTranscriptMessages(0), p)

\* initializeDOMMonitoring (lines 137-172)
initializeDOMMonitoring(p) ==
    IF ~page.panel
    THEN [p EXCEPT !.retries = p.retries + 1]
    ELSE processExistingMessages(
             [p EXCEPT !.observer = TRUE, !.records = << >>])

controlVars ==
    <<phase, boundId, conversationId, sessionlessId, log, processed,
      isActive, subscribed, observer, interval, retries, attempts, records,
      inbound, azureOpenAIEndpoint, aiChatMessages, conversationHistory,
      fetches, sent, toasts, caught, rendered, polls, superseded, last>>

frameVars == <<articles, text, node, markup, late, now, timeEl, divs, results>>

\* publisher.initialize (lines 66-99), called by the form's OnLoad;
\* hasId: the form's entity has an id
initialize(hasId) ==
    /\ ~publisher.onLoad
    /\ publisher' =
          IF publisher.initialized \/ ~hasId
          THEN [publisher EXCEPT !.onLoad = TRUE]
          ELSE [initializeDOMMonitoring(publisher)
                   EXCEPT !.onLoad = TRUE, !.initialized = TRUE]
    /\ UNCHANGED <<page, controlVars, frameVars>>

\* a timer set at line 146 fires
retryMonitoring ==
    /\ publisher.retries > 0
    /\ publisher' = initializeDOMMonitoring(
                        [publisher EXCEPT !.retries = publisher.retries - 1])
    /\ UNCHANGED <<page, controlVars, frameVars>>

\* mutations.forEach(... processNewNode(node) ...) (lines 153-161)
RECURSIVE processAdded(_, _)
processAdded(mutations, p) ==
    IF mutations = << >> THEN p
    ELSE processAdded(Tail(mutations), processNewNode(Head(mutations), p))

\* the observer's callback receives the queued records
publisherCallback ==
    /\ publisher.observer
    /\ publisher.records # << >>
    /\ publisher' = processAdded(publisher.records,
                                 [publisher EXCEPT !.records = << >>])
    /\ UNCHANGED <<page, controlVars, frameVars>>

\* publisher.cleanup (lines 104-113)
cleanup ==
    /\ publisher.onLoad
    /\ publisher' = [publisher EXCEPT !.observer = FALSE, !.records = << >>,
                                      !.initialized = FALSE,
                                      !.processedMessages = {}]
    /\ UNCHANGED <<page, controlVars, frameVars>>

\* the transcript panel is rendered
panelAppears ==
    /\ ~page.panel
    /\ page' = [page EXCEPT !.panel = TRUE]
    /\ UNCHANGED <<publisher, controlVars, frameVars>>

\* element n becomes a child of the panel, with its subtree
attach(n) ==
    /\ page.panel
    /\ page.desc[n].parent = 0
    /\ n \notin page.attached
    /\ publisher.observer => Len(publisher.records) < MaxRecords
    /\ page' = [page EXCEPT !.attached = page.attached \cup {n}]
    /\ publisher' = IF publisher.observer
                    THEN [publisher EXCEPT
                            !.records = Append(publisher.records, n)]
                    ELSE publisher
    /\ UNCHANGED <<controlVars, frameVars>>

\* element n is taken out of the document: the record has no added node
detach(n) ==
    /\ n \in page.attached
    /\ page' = [page EXCEPT !.attached = page.attached \ {n}]
    /\ UNCHANGED <<publisher, controlVars, frameVars>>

\* Date.now() advances
clock ==
    /\ now < MaxClock
    /\ now' = now + 1
    /\ UNCHANGED <<publisher, page, controlVars>>
    /\ UNCHANGED <<articles, text, node, markup, late, timeEl, divs, results>>

InitPublisher ==
    /\ InitCtl
    /\ boundId = NULL
    /\ markup = [e \in Elems |-> markupOf(e)]
    /\ NoTimes
    /\ NoFinder
    /\ publisher = NotLoaded
    /\ \E d \in Pages : page = [panel |-> FALSE, attached |-> {}, desc |-> d]

NextPublisher ==
    \/ \E hasId \in BOOLEAN : initialize(hasId)
    \/ retryMonitoring
    \/ publisherCallback
    \/ cleanup
    \/ panelAppears
    \/ \E n \in Nodes : attach(n)
    \/ \E n \in Nodes : detach(n)
    \/ clock

SpecPublisher == InitPublisher /\ [][NextPublisher]_vars

\* the events that the publisher has dispatched for element n
publishedFor(p, n) == {j \in DOMAIN p.published : p.published[j].el = n}

(***************************************************************************)
(* C33.  While the publisher is initialized, it has dispatched at most one *)
(* omnichannelTranscriptUpdate event for any message element, however      *)
(* often the initial scan and the observed additions present the element.  *)
(***************************************************************************)
C33_PublishedOnce ==
    publisher.initialized =>
        \A n \in Nodes : Cardinality(publishedFor(publisher, n)) <= 1

(***************************************************************************)
(* C34.  When the observer's callback handles the addition of a node that  *)
(* is itself a transcript message element, an event has been dispatched    *)
(* for that node when the callback returns.                                *)
(***************************************************************************)
C34_Step ==
    publisherCallback =>
        \A i \in DOMAIN publisher.records :
            page.desc[publisher.records[i]].sel # {} =>
                publishedFor(publisher', publisher.records[i]) # {}

C34_SelfPublished == [][C34_Step]_vars

(***************************************************************************)
(* C35.  Once cleanup() has returned, no step dispatches a further         *)
(* transcript event.                                                       *)
(***************************************************************************)
C35_Step ==
    (publisher.onLoad /\ ~publisher.initialized) =>
        publisher'.published = publisher.published

C35_SilentAfterCleanup == [][C35_Step]_vars

\* the positions of log lg whose utterance was extracted from an article
domDerived(lg) == {i \in DOMAIN lg : lg[i].src # 0}

(***************************************************************************)
(* C36.  The processed-element index and the log correspond one to one on  *)
(* the DOM path: every element of _processedArticles has exactly one       *)
(* utterance in the log, every DOM-derived utterance comes from an element *)
(* of _processedArticles, and there are as many DOM-derived utterances as  *)
(* elements in the index.                                                  *)
(***************************************************************************)
C36_OneToOne ==
    /\ \A e \in processed : countIn(log, e) = 1
    /\ \A i \in domDerived(log) : log[i].src \in processed
    /\ Cardinality(domDerived(log)) = Cardinality(processed)

\* every article has been processed, and the log also holds an utterance
\* that an inbound event delivered to a control without conversation id
C36_Witness ==
    /\ processed = Elems
    /\ Len(log) = NumElems + 1
    /\ \E i \in DOMAIN log : log[i].src = 0
    /\ conversationId = NULL
    /\ boundId = NULL
    /\ sessionlessId # NoSession
    /\ observer

(***************************************************************************)
(* C37.  A control has at most one connected MutationObserver and at most  *)
(* one running article-poll interval: startIFrameMonitoring, which creates *)
(* both and keeps them in _transcriptObserver and _articleCheckInterval,   *)
(* never runs while an observer is connected or an interval is running.    *)
(* And no frame-locate retry timer is pending while an observer is         *)
(* connected.                                                              *)
(***************************************************************************)
C37_State == observer => retries = 0

C37_Step ==
    (observer \/ interval) =>
        /\ ~(\E found \in FrameStates : init(found))
        /\ ~(\E found \in FrameStates : retryTimer(found))

C37_AtMostOneWatcher == C37_State /\ [][C37_State' /\ C37_Step]_vars

\* a retry that was pending at destroy() has attached the watcher of the
\* destroyed control
C37_Witness ==
    /\ phase = "destroyed"
    /\ observer
    /\ interval
    /\ retries = 0

(***************************************************************************)
(* The transcript list next to the log: utterances arrive from the         *)
(* document, from custom events and from window messages, some of which    *)
(* name no speaker, and the host changes the bound id.                     *)
(***************************************************************************)
NextRender ==
    \/ init("ok")
    \/ observerCallback
    \/ articleCheck("ok")
    \/ \E detail \in [present : {TRUE}, conversationId : {NULL},
                       hasUtterance : {TRUE},
                       speaker : {"Agent", UNDEFINED}, timestamp : {0}] :
          handleCustomTranscriptEvent(detail)
    \/ \E data \in [present : {TRUE},
                     type : {"omnichannelTranscriptUpdate"},
                     conversationId : {NULL},
                     speaker : {"Customer", UNDEFINED}, timestamp : {0}] :
          handlePostMessage(data)
    \/ \E id \in {NULL, "abc-123"} : updateView(id)
    \/ \E e \in Elems, isEl \in BOOLEAN :
          insertArticle(e, TxtHello, "markdown", isEl)

SpecRender == InitLog /\ [][NextRender]_vars

(***************************************************************************)
(* C38.  The rendered transcript list mirrors the log: after every         *)
(* operation the rendered utterance elements are, in number and order,     *)
(* the utterances of _transcriptUtterances.                                *)
(***************************************************************************)
C38_ListMirrorsLog == rendered = log

(***************************************************************************)
(* C39.  Handling one inbound custom event or window message is            *)
(* all-or-nothing: either exactly one utterance is appended, or the log,   *)
(* _conversationId and _sessionlessId are left exactly as they were.       *)
(***************************************************************************)
C39_Step ==
    inbound' # inbound =>
        \/ Len(log') = Len(log) + 1
        \/ UNCHANGED <<log, conversationId, sessionlessId>>

C39_AllOrNothing == [][C39_Step]_vars

(***************************************************************************)
(* C40.  The response to an analysis request that a newer utterance has    *)
(* superseded is neither displayed in the AI chat nor recorded in          *)
(* _conversationHistory: the step in which it arrives changes neither.     *)
(* Responses arrive in the order of their requests.                        *)
(***************************************************************************)
C40_Step ==
    (fetches' < fetches /\ superseded > 0) =>
        /\ aiChatMessages' = aiChatMessages
        /\ conversationHistory' = conversationHistory

C40_SupersededDropped == [][C40_Step]_vars

====
